---- MODULE Spec2Model ----
(***************************************************************************)
(* Vendor unmasking and spending analysis of amex-anaylsis-mcp.            *)
(*                                                                         *)
(* Strings are sequences of one-character strings.  Regular expressions    *)
(* of the source are kept as syntax trees and matched with JavaScript's    *)
(* backtracking priority (leftmost match, greedy or lazy repetition).      *)
(* Money is in cents, dates are day numbers, confidences and scores are    *)
(* in hundredths.                                                          *)
(***************************************************************************)
EXTENDS Integers, Sequences, FiniteSets, TLC

\* ------------------------------------------------------------------------
\* Strings
\* ------------------------------------------------------------------------

Str(s) == [i \in 1..Len(s) |-> SubSeq(s, i, i)]

UpperSeq == Str("ABCDEFGHIJKLMNOPQRSTUVWXYZ")

LowerSeq == Str("abcdefghijklmnopqrstuvwxyz")

Uppers == {UpperSeq[i] : i \in 1..26}

Lowers == {LowerSeq[i] : i \in 1..26}

Digits == {"0", "1", "2", "3", "4", "5", "6", "7", "8", "9"}

WordChars == Uppers \cup Lowers \cup Digits \cup {"_"}

SpaceChars == {" "}

ToUpperChar(c) == IF c \in Lowers THEN UpperSeq[CHOOSE i \in 1..26 : LowerSeq[i] = c] ELSE c

ToLowerChar(c) == IF c \in Uppers THEN LowerSeq[CHOOSE i \in 1..26 : UpperSeq[i] = c] ELSE c

ToUpper(s) == [i \in 1..Len(s) |-> ToUpperChar(s[i])]

ToLower(s) == [i \in 1..Len(s) |-> ToLowerChar(s[i])]

\* String.prototype.includes
Includes(s, sub) ==
  \E i \in 0..(Len(s) - Len(sub)) : SubSeq(s, i + 1, i + Len(sub)) = sub

\* String.prototype.trim
Trim(s) ==
  LET keep == {i \in 1..Len(s) : s[i] \notin SpaceChars}
  IN  IF keep = {} THEN <<>>
      ELSE SubSeq(s, CHOOSE i \in keep : \A j \in keep : i <= j,
                     CHOOSE i \in keep : \A j \in keep : i >= j)

\* String.prototype.split with a one-character separator
RECURSIVE SplitChar(_, _)
SplitChar(s, c) ==
  LET hits == {i \in 1..Len(s) : s[i] = c}
  IN  IF hits = {} THEN <<s>>
      ELSE LET i == CHOOSE h \in hits : \A g \in hits : h <= g
           IN  <<SubSeq(s, 1, i - 1)>> \o SplitChar(SubSeq(s, i + 1, Len(s)), c)

\* Array.prototype.join
RECURSIVE Join(_, _)
Join(parts, sep) ==
  IF parts = <<>> THEN <<>>
  ELSE IF Len(parts) = 1 THEN parts[1]
  ELSE parts[1] \o sep \o Join(Tail(parts), sep)

\* ------------------------------------------------------------------------
\* Regular expressions (syntax trees and the backtracking matcher)
\* ------------------------------------------------------------------------

Inf == 99

Lit(c) == [t |-> "lit", c |-> c]

Set(cls) == [t |-> "set", s |-> cls]

Dot == [t |-> "any"]

Bol == [t |-> "bol"]

Eol == [t |-> "eol"]

Wb == [t |-> "wb"]

Cat(xs) == [t |-> "cat", xs |-> xs]

Alt(xs) == [t |-> "alt", xs |-> xs]

Cap(x) == [t |-> "cap", x |-> x]

Rep(x, lo, hi) == [t |-> "rep", x |-> x, lo |-> lo, hi |-> hi, greedy |-> TRUE]

Lazy(x, lo, hi) == [t |-> "rep", x |-> x, lo |-> lo, hi |-> hi, greedy |-> FALSE]

Star(x) == Rep(x, 0, Inf)

Plus(x) == Rep(x, 1, Inf)

Opt(x) == Rep(x, 0, 1)

Word(w) == Cat([i \in 1..Len(w) |-> Lit(SubSeq(w, i, i))])

RxD == Set(Digits)

RxW == Set(WordChars)

RxS == Set(SpaceChars)

\* a regular expression literal: its tree and its i flag
Rx(n) == [n |-> n, ci |-> FALSE]

RxI(n) == [n |-> n, ci |-> TRUE]

InClass(c, cls, ci) == c \in cls \/ (ci /\ (ToUpperChar(c) \in cls \/ ToLowerChar(c) \in cls))

IsWordAt(s, i) == i >= 1 /\ i <= Len(s) /\ s[i] \in WordChars

\* RxM(n, s, st, ci): the states reached by matching node n on s from state
\* st = [p: characters consumed, c: capture group 1], in backtracking order
RECURSIVE RxM(_, _, _, _)
RECURSIVE RxAll(_, _, _, _)
RECURSIVE RxCat(_, _, _, _, _)
RECURSIVE RxAlt(_, _, _, _, _)
RECURSIVE RxRep(_, _, _, _, _)
RECURSIVE RxRepAll(_, _, _, _, _)

\* the states r of a capture group entered at position p, with the group recorded
RxCapture(r, p) == [i \in 1..Len(r) |-> [r[i] EXCEPT !.c = <<p, r[i].p>>]]

\* a greedy repetition tries one more round first, a lazy one tries to stop first;
\* a round counts only when it consumed at least one character
RxOrder(greedy, more, stop) == IF greedy THEN more \o stop ELSE stop \o more

RxM(n, s, st, ci) ==
  CASE n.t = "lit" ->
         IF st.p < Len(s) /\ (s[st.p + 1] = n.c \/ (ci /\ ToUpperChar(s[st.p + 1]) = ToUpperChar(n.c)))
         THEN <<[st EXCEPT !.p = @ + 1]>> ELSE <<>>
    [] n.t = "set" ->
         IF st.p < Len(s) /\ InClass(s[st.p + 1], n.s, ci)
         THEN <<[st EXCEPT !.p = @ + 1]>> ELSE <<>>
    [] n.t = "nset" ->
         IF st.p < Len(s) /\ ~InClass(s[st.p + 1], n.s, ci)
         THEN <<[st EXCEPT !.p = @ + 1]>> ELSE <<>>
    [] n.t = "any" ->
         IF st.p < Len(s) THEN <<[st EXCEPT !.p = @ + 1]>> ELSE <<>>
    [] n.t = "bol" -> IF st.p = 0 THEN <<st>> ELSE <<>>
    [] n.t = "eol" -> IF st.p = Len(s) THEN <<st>> ELSE <<>>
    [] n.t = "wb" ->
         IF IsWordAt(s, st.p) # IsWordAt(s, st.p + 1) THEN <<st>> ELSE <<>>
    [] n.t = "cat" -> RxCat(n.xs, 1, s, <<st>>, ci)
    [] n.t = "alt" -> RxAlt(n.xs, 1, s, st, ci)
    [] n.t = "rep" -> RxRep(n, 0, s, st, ci)
    [] n.t = "cap" -> RxCapture(RxM(n.x, s, st, ci), st.p)

RxAll(n, s, sts, ci) ==
  IF sts = <<>> THEN <<>>
  ELSE RxM(n, s, Head(sts), ci) \o RxAll(n, s, Tail(sts), ci)

RxCat(xs, k, s, sts, ci) ==
  IF k > Len(xs) \/ sts = <<>> THEN sts
  ELSE RxCat(xs, k + 1, s, RxAll(xs[k], s, sts, ci), ci)

RxAlt(xs, k, s, st, ci) ==
  IF k > Len(xs) THEN <<>>
  ELSE RxM(xs[k], s, st, ci) \o RxAlt(xs, k + 1, s, st, ci)

RxRep(n, k, s, st, ci) ==
  RxOrder(n.greedy,
          IF k < n.hi
          THEN RxRepAll(n, k + 1, s, SelectSeq(RxM(n.x, s, st, ci), LAMBDA x : x.p > st.p), ci)
          ELSE <<>>,
          IF k >= n.lo THEN <<st>> ELSE <<>>)

RxRepAll(n, k, s, sts, ci) ==
  IF sts = <<>> THEN <<>>
  ELSE RxRep(n, k, s, Head(sts), ci) \o RxRepAll(n, k, s, Tail(sts), ci)

RxAt(re, s, i) == RxM(re.n, s, [p |-> i, c |-> <<>>], re.ci)

\* RegExp.prototype.test
RxTest(re, s) == \E i \in 0..Len(s) : RxAt(re, s, i) # <<>>

\* the leftmost match at or after position from: [start, end, c], or NoMatch
NoMatch == [start |-> -1, end |-> -1, c |-> <<>>]

\* the match that starts at i with the states r, or the next one to the right
RECURSIVE RxExecFrom(_, _, _)
RxMatchOr(r, re, s, i) ==
  IF r # <<>> THEN [start |-> i, end |-> Head(r).p, c |-> Head(r).c]
  ELSE RxExecFrom(re, s, i + 1)

RxExecFrom(re, s, from) ==
  IF from > Len(s) THEN NoMatch ELSE RxMatchOr(RxAt(re, s, from), re, s, from)

\* String.prototype.match without the g flag
RxExec(re, s) == RxExecFrom(re, s, 0)

\* the text of capture group 1 of a match ("" when the group did not take part)
Group1(s, m) == IF m.c = <<>> THEN <<>> ELSE SubSeq(s, m.c[1] + 1, m.c[2])

\* String.prototype.replace with a pattern without the g flag
Splice(s, m, by) ==
  IF m.start < 0 THEN s
  ELSE SubSeq(s, 1, m.start) \o by \o SubSeq(s, m.end + 1, Len(s))

Replace(s, re, by) == Splice(s, RxExec(re, s), by)

\* String.prototype.replace with a pattern with the g flag
RECURSIVE ReplaceAllFrom(_, _, _, _)
SpliceAll(s, re, by, from, m) ==
  IF m.start < 0 THEN SubSeq(s, from + 1, Len(s))
  ELSE SubSeq(s, from + 1, m.start) \o by
       \o (IF m.end > m.start
           THEN ReplaceAllFrom(s, re, by, m.end)
           ELSE IF m.end < Len(s)
                THEN <<s[m.end + 1]>> \o ReplaceAllFrom(s, re, by, m.end + 1)
                ELSE <<>>)

ReplaceAllFrom(s, re, by, from) == SpliceAll(s, re, by, from, RxExecFrom(re, s, from))

ReplaceAll(s, re, by) == ReplaceAllFrom(s, re, by, 0)

\* String.prototype.split with a pattern that matches no empty string
RECURSIVE SplitRxFrom(_, _, _)
SplitAt(s, re, from, m) ==
  IF m.start < 0 \/ m.end = m.start THEN <<SubSeq(s, from + 1, Len(s))>>
  ELSE <<SubSeq(s, from + 1, m.start)>> \o SplitRxFrom(s, re, m.end)

SplitRxFrom(s, re, from) == SplitAt(s, re, from, RxExecFrom(re, s, from))

SplitRx(s, re) == SplitRxFrom(s, re, 0)

\* ------------------------------------------------------------------------
\* VendorUnmasker: the static tables
\* ------------------------------------------------------------------------

processorPatterns ==
  <<
    [processor |-> "PayPal",
     patterns |-> << RxI(Cat(<<Bol, Word("PAYPAL"), Star(RxS), Lit("*")>>)),
                     RxI(Cat(<<Bol, Word("PP"), Lit("*"), Plus(RxD)>>)),
                     RxI(Cat(<<Bol, Word("PAYPAL"), Plus(RxS)>>)),
                     RxI(Cat(<<Wb, Word("PAYPAL"), Wb, Star(Dot), Lit("*")>>)) >>,
     method |-> "delimiter", delimiter |-> "*",
     cleanupPatterns |-> << RxI(Cat(<<Bol, Word("PAYPAL"), Star(RxS), Lit("*")>>)),
                            Rx(Cat(<<Bol, Plus(RxD), Star(RxS)>>)) >>,
     confidence |-> 90],

    [processor |-> "Square",
     patterns |-> << RxI(Cat(<<Bol, Word("SQ"), Star(RxS), Lit("*")>>)),
                     RxI(Cat(<<Bol, Word("SQUARE"), Star(RxS), Lit("*")>>)),
                     RxI(Cat(<<Bol, Word("SQU"), Lit("*"), Plus(RxD)>>)),
                     RxI(Cat(<<Wb, Word("SQUARE"), Wb, Star(Dot), Lit("*")>>)),
                     RxI(Cat(<<Bol, Word("GOSQ"), Lit("."), Word("COM")>>)) >>,
     method |-> "delimiter", delimiter |-> "*",
     cleanupPatterns |-> << RxI(Cat(<<Bol, Word("SQ"), Star(RxW), Star(RxS), Lit("*")>>)),
                            Rx(Cat(<<Bol, Plus(RxD), Star(RxS)>>)) >>,
     confidence |-> 90],

    [processor |-> "Stripe",
     patterns |-> << RxI(Cat(<<Bol, Word("STRIPE")>>)),
                     RxI(Cat(<<Bol, Word("STR"), Lit("*")>>)),
                     RxI(Cat(<<Wb, Word("STRIPE"), Lit("."), Word("COM"), Wb>>)),
                     RxI(Cat(<<Word("STRIPE"), Plus(RxS), Word("CHARGE")>>)) >>,
     method |-> "regex",
     regex |-> RxI(Cat(<<Alt(<<Cat(<<Word("STR"), Lit("*")>>),
                              Cat(<<Word("STRIPE"), Plus(Set(SpaceChars \cup {":"}))>>)>>),
                        Cap(Lazy(Dot, 1, Inf)),
                        Opt(Cat(<<Plus(RxS), Rep(RxD, 10, Inf)>>)),
                        Eol>>)),
     cleanupPatterns |-> << RxI(Cat(<<Plus(RxS), Word("CHARGE"), Eol>>)) >>,
     confidence |-> 85],

    [processor |-> "Venmo",
     patterns |-> << RxI(Cat(<<Bol, Word("VENMO"), Plus(RxS)>>)),
                     RxI(Cat(<<Bol, Word("VENMO"), Star(RxS), Lit("*")>>)),
                     RxI(Cat(<<Wb, Word("VENMO"), Wb, Star(Dot), Word("PAYMENT")>>)) >>,
     method |-> "position", position |-> 1,
     cleanupPatterns |-> << RxI(Cat(<<Bol, Word("VENMO"), Plus(RxS)>>)),
                            RxI(Cat(<<Plus(RxS), Word("PAYMENT"), Eol>>)) >>,
     confidence |-> 80],

    [processor |-> "CashApp",
     patterns |-> << RxI(Cat(<<Bol, Word("CASH"), Star(RxS), Word("APP")>>)),
                     RxI(Cat(<<Bol, Word("CASH-APP")>>)),
                     RxI(Cat(<<Bol, Word("CA"), Lit("*"), Plus(RxD)>>)),
                     RxI(Cat(<<Wb, Word("CASHAPP"), Wb>>)) >>,
     method |-> "delimiter", delimiter |-> "*",
     cleanupPatterns |-> << RxI(Cat(<<Bol, Word("CA"), Star(RxW), Star(RxS), Lit("*")>>)) >>,
     confidence |-> 85],

    [processor |-> "Zelle",
     patterns |-> << RxI(Cat(<<Bol, Word("ZELLE"), Plus(RxS)>>)),
                     RxI(Cat(<<Wb, Word("ZELLE"), Wb, Star(Dot), Word("PAYMENT")>>)),
                     RxI(Cat(<<Bol, Word("ZELLE"), Star(RxS), Word("TO"), Plus(RxS)>>)) >>,
     method |-> "regex",
     regex |-> RxI(Cat(<<Word("ZELLE"), Plus(RxS),
                        Opt(Cat(<<Word("TO"), Plus(RxS)>>)),
                        Cap(Lazy(Dot, 1, Inf)),
                        Opt(Cat(<<Plus(RxS), Rep(RxD, 10, Inf)>>)),
                        Eol>>)),
     cleanupPatterns |-> << >>,
     confidence |-> 80],

    [processor |-> "Toast",
     patterns |-> << RxI(Cat(<<Bol, Word("TST"), Lit("*")>>)),
                     RxI(Cat(<<Bol, Word("TOAST"), Plus(RxS)>>)),
                     RxI(Cat(<<Wb, Word("TOASTPOS"), Wb>>)) >>,
     method |-> "delimiter", delimiter |-> "*",
     cleanupPatterns |-> << RxI(Cat(<<Bol, Word("TST"), Star(RxS), Lit("*")>>)) >>,
     confidence |-> 90],

    [processor |-> "Clover",
     patterns |-> << RxI(Cat(<<Bol, Word("CLOVER"), Plus(RxS)>>)),
                     RxI(Cat(<<Bol, Word("CLV"), Lit("*")>>)),
                     RxI(Cat(<<Wb, Word("CLOVER"), Wb, Star(Dot), Lit("*")>>)) >>,
     method |-> "delimiter", delimiter |-> "*",
     cleanupPatterns |-> << RxI(Cat(<<Bol, Word("CL"), Plus(RxW), Star(RxS), Lit("*")>>)) >>,
     confidence |-> 85],

    [processor |-> "Apple Pay",
     patterns |-> << RxI(Cat(<<Bol, Word("APPLE"), Star(RxS), Word("PAY")>>)),
                     RxI(Cat(<<Bol, Word("APL"), Lit("*"), Star(RxS)>>)),
                     RxI(Cat(<<Wb, Word("APPLE"), Lit("."), Word("COM"), Lit("/"),
                               Word("BILL"), Wb>>)) >>,
     method |-> "position", position |-> 2,
     cleanupPatterns |-> << RxI(Cat(<<Bol, Word("APPLE"), Star(RxS), Word("PAY"), Star(RxS)>>)) >>,
     confidence |-> 75],

    [processor |-> "Google Pay",
     patterns |-> << RxI(Cat(<<Bol, Word("GOOGLE"), Star(RxS), Word("PAY")>>)),
                     RxI(Cat(<<Bol, Word("GOOGLE"), Star(RxS), Lit("*")>>)),
                     RxI(Cat(<<Bol, Word("G"), Lit("."), Word("CO"), Lit("/")>>)) >>,
     method |-> "delimiter", delimiter |-> "*",
     cleanupPatterns |-> << RxI(Cat(<<Bol, Word("GOOGLE"), Star(RxS), Star(RxW), Star(RxS), Lit("*")>>)) >>,
     confidence |-> 80]
  >>

\* vendorMappings in insertion order: <<key, canonical name>>
vendorMappings ==
  << <<"GRUBHUB", "Grubhub Food Delivery">>,
     <<"DOORDASH", "DoorDash Food Delivery">>,
     <<"UBEREATS", "Uber Eats">>,
     <<"INSTACART", "Instacart Grocery Delivery">>,
     <<"EBAY", "eBay Marketplace">>,
     <<"ETSY", "Etsy Marketplace">>,
     <<"COFFEE", "Local Coffee Shop">>,
     <<"CAFE", "Local Cafe">>,
     <<"RESTAURANT", "Local Restaurant">>,
     <<"BOUTIQUE", "Local Boutique">>,
     <<"SALON", "Local Salon">>,
     <<"BARBER", "Local Barber Shop">>,
     <<"SUBSTACK", "Substack Newsletter">>,
     <<"PATREON", "Patreon Creator Support">>,
     <<"MEDIUM", "Medium Subscription">>,
     <<"NOTION", "Notion Workspace">>,
     <<"CANVA", "Canva Design Tool">>,
     <<"ONLYFANS", "OnlyFans Subscription">>,
     <<"OF", "OnlyFans Subscription">>,
     <<"FANSLY", "Fansly Subscription">>,
     <<"TWITCH", "Twitch Subscription">>,
     <<"DISCORD", "Discord Nitro">>,
     <<"GITHUB", "GitHub Subscription">>,
     <<"CHATGPT", "ChatGPT Plus">>,
     <<"OPENAI", "OpenAI Services">> >>

MappingKey(i) == Str(vendorMappings[i][1])

MappingName(i) == Str(vendorMappings[i][2])

RxWordOnly(w) == RxI(Cat(<<Bol, Word(w), Eol>>))

\* suspiciousDescriptors with the i flag forgotten on the generic words
RxWordOnlyCased(w) == Rx(Cat(<<Bol, Word(w), Eol>>))

suspiciousDescriptorsCased ==
  << RxWordOnlyCased("PAYMENT"), RxWordOnlyCased("TRANSFER"), RxWordOnlyCased("PURCHASE"),
     RxWordOnlyCased("TRANSACTION"), RxWordOnlyCased("CHARGE"), RxWordOnlyCased("DEBIT"),
     Rx(Cat(<<Bol, Word("POS"), Plus(RxS), Word("PURCHASE"), Eol>>)),
     Rx(Cat(<<Bol, Word("ONLINE"), Plus(RxS), Word("PAYMENT"), Eol>>)),
     Rx(Cat(<<Bol, Word("WEB"), Plus(RxS), Word("PAYMENT"), Eol>>)),
     RxWordOnlyCased("RECURRING"),
     Rx(Cat(<<Bol, Plus(RxD), Eol>>)),
     Rx(Cat(<<Bol, Rep(Set(Uppers), 2, 4), Plus(RxD), Eol>>)) >>

suspiciousDescriptors ==
  << RxWordOnly("PAYMENT"), RxWordOnly("TRANSFER"), RxWordOnly("PURCHASE"),
     RxWordOnly("TRANSACTION"), RxWordOnly("CHARGE"), RxWordOnly("DEBIT"),
     RxI(Cat(<<Bol, Word("POS"), Plus(RxS), Word("PURCHASE"), Eol>>)),
     RxI(Cat(<<Bol, Word("ONLINE"), Plus(RxS), Word("PAYMENT"), Eol>>)),
     RxI(Cat(<<Bol, Word("WEB"), Plus(RxS), Word("PAYMENT"), Eol>>)),
     RxWordOnly("RECURRING"),
     Rx(Cat(<<Bol, Plus(RxD), Eol>>)),
     Rx(Cat(<<Bol, Rep(Set(Uppers), 2, 4), Plus(RxD), Eol>>)) >>

\* categoryHints in insertion order: <<category, keywords>>
categoryHints ==
  << <<"Food & Dining", <<"restaurant", "cafe", "coffee", "pizza", "burger", "sushi",
                          "tacos", "deli", "bakery", "kitchen", "grill", "diner">> >>,
     <<"Transportation", <<"uber", "lyft", "taxi", "parking", "toll", "metro", "transit">> >>,
     <<"Entertainment", <<"netflix", "spotify", "hulu", "disney", "hbo", "games",
                          "theater", "cinema">> >>,
     <<"Shopping", <<"amazon", "ebay", "etsy", "walmart", "target", "shop", "store",
                     "boutique">> >>,
     <<"Subscriptions", <<"subscription", "monthly", "annual", "membership", "premium",
                          "pro", "plus">> >>,
     <<"Adult Content", <<"onlyfans", "of", "fansly", "manyvids", "chaturbate", "cam">> >>,
     <<"Crypto/Trading", <<"coinbase", "binance", "kraken", "robinhood", "etrade",
                           "crypto", "bitcoin">> >>,
     <<"Gaming", <<"steam", "xbox", "playstation", "nintendo", "epic", "twitch",
                   "discord">> >> >>

\* ------------------------------------------------------------------------
\* VendorUnmasker: the functions
\* ------------------------------------------------------------------------

\* for (const pattern of cleanupPatterns) vendor = vendor.replace(pattern, '').trim()
RECURSIVE ApplyCleanup(_, _, _)
ApplyCleanup(vendor, cleanupPatterns, k) ==
  IF k > Len(cleanupPatterns) THEN vendor
  ELSE ApplyCleanup(Trim(Replace(vendor, cleanupPatterns[k], <<>>)), cleanupPatterns, k + 1)

\* parts[1].trim() with the cleanup patterns applied, '' when there is no second part
DelimitedPart(parts, cleanupPatterns) ==
  IF Len(parts) < 2 THEN <<>>
  ELSE ApplyCleanup(Trim(parts[2]), cleanupPatterns, 1)

extractByDelimiter(text, delimiter, cleanupPatterns) ==
  DelimitedPart(SplitChar(text, delimiter), cleanupPatterns)

extractByPosition(text, position, cleanupPatterns) ==
  Join(SubSeq(SplitRx(ApplyCleanup(text, cleanupPatterns, 1), Rx(Plus(RxS))), position + 1,
              Len(SplitRx(ApplyCleanup(text, cleanupPatterns, 1), Rx(Plus(RxS))))), <<" ">>)

\* match[1].trim() with the cleanup patterns applied, '' without a match
CapturedPart(text, m, cleanupPatterns) ==
  IF m.start < 0 \/ Group1(text, m) = <<>> THEN <<>>
  ELSE ApplyCleanup(Trim(Group1(text, m)), cleanupPatterns, 1)

extractByRegex(text, regex, cleanupPatterns) ==
  CapturedPart(text, RxExec(regex, text), cleanupPatterns)

\* word.charAt(0).toUpperCase() + word.slice(1).toLowerCase()
TitleWord(word) ==
  IF word = <<>> THEN <<>>
  ELSE <<ToUpperChar(word[1])>> \o ToLower(Tail(word))

\* name.split(' ').map(...).join(' ')
TitleCase(name) ==
  Join([i \in 1..Len(SplitChar(name, " ")) |-> TitleWord(SplitChar(name, " ")[i])], <<" ">>)

\* the chain of replaces, innermost first:
\*   /\s+\d{4,}$/  /\s+#\d+$/  /\s+LLC$/i  /\s+INC$/i  /\s+CORP$/i  by ''
\*   /[^\w\s&'-]/g  /\s+/g  by ' '
\* then trim and title case
cleanVendorName(vendor) ==
  TitleCase(Trim(
    ReplaceAll(ReplaceAll(
      Replace(Replace(Replace(Replace(Replace(vendor,
        Rx(Cat(<<Plus(RxS), Rep(RxD, 4, Inf), Eol>>)), <<>>),
        Rx(Cat(<<Plus(RxS), Lit("#"), Plus(RxD), Eol>>)), <<>>),
        RxI(Cat(<<Plus(RxS), Word("LLC"), Eol>>)), <<>>),
        RxI(Cat(<<Plus(RxS), Word("INC"), Eol>>)), <<>>),
        RxI(Cat(<<Plus(RxS), Word("CORP"), Eol>>)), <<>>),
      Rx([t |-> "nset", s |-> WordChars \cup SpaceChars \cup {"&", "'", "-"}]), <<" ">>),
      Rx(Plus(RxS)), <<" ">>)))

\* LookupIndex without the partial match loop
LookupIndexDirectOnly(vendor) ==
  LET direct == {i \in 1..Len(vendorMappings) : MappingKey(i) = ToUpper(vendor)}
  IN  IF direct # {} THEN CHOOSE i \in direct : \A j \in direct : i <= j ELSE 0

\* the index of the vendorMappings entry lookupKnownVendor returns, 0 for null
LookupIndex(vendor) ==
  LET vendorUpper == ToUpper(vendor)
      n == Len(vendorMappings)
      direct == {i \in 1..n : MappingKey(i) = vendorUpper}
      partial == {i \in 1..n : Includes(vendorUpper, MappingKey(i))
                               \/ Includes(MappingKey(i), vendorUpper)}
  IN  IF direct # {} THEN CHOOSE i \in direct : \A j \in direct : i <= j
      ELSE IF partial # {} THEN CHOOSE i \in partial : \A j \in partial : i <= j
      ELSE 0

\* lookupKnownVendor: the canonical name, or <<>> for null
lookupKnownVendor(vendor) ==
  IF LookupIndex(vendor) = 0 THEN <<>> ELSE MappingName(LookupIndex(vendor))

AnyTest(patterns, text) == \E k \in 1..Len(patterns) : RxTest(patterns[k], text)

isSuspiciousExtraction(vendor) ==
  \/ RxTest(Rx(Cat(<<Bol, Plus(Set(Digits)), Eol>>)), vendor)
  \/ Len(vendor) < 3
  \/ RxTest(Rx(Cat(<<Bol, Rep(Set(Uppers), 2, 4), Eol>>)), vendor)
  \/ AnyTest(suspiciousDescriptors, vendor)

\* inferCategory: the first category, in table order, with a keyword in the text
inferCategory(text) ==
  LET textLower == ToLower(text)
      hit(i) == \E k \in 1..Len(categoryHints[i][2]) :
                  Includes(textLower, Str(categoryHints[i][2][k]))
      hits == {i \in 1..Len(categoryHints) : hit(i)}
  IN  IF hits = {} THEN "Other"
      ELSE categoryHints[CHOOSE i \in hits : \A j \in hits : i <= j][1]

UnknownVendor == Str("Unknown Vendor")

RecoveredVendor(cleaned, emailMatch, urlMatch, words) ==
  IF emailMatch.start >= 0
  THEN cleanVendorName(SplitChar(SplitChar(SubSeq(cleaned, emailMatch.start + 1, emailMatch.end),
                                      "@")[2], ".")[1])
  ELSE IF urlMatch.start >= 0
  THEN cleanVendorName(SplitChar(SubSeq(cleaned, urlMatch.start + 1, urlMatch.end), ".")[1])
  ELSE IF Len(words) > 0 THEN Join(words, <<" ">>)
  ELSE UnknownVendor

\* the matches of /[\w.-]+@[\w.-]+/ and /[\w-]+\.(com|net|org|io)/i, and the words
RecoverFrom(cleaned) ==
  RecoveredVendor(cleaned,
                  RxExec(Rx(Cat(<<Plus(Set(WordChars \cup {".", "-"})), Lit("@"),
                                  Plus(Set(WordChars \cup {".", "-"}))>>)), cleaned),
                  RxExec(RxI(Cat(<<Plus(Set(WordChars \cup {"-"})), Lit("."),
                                   Alt(<<Word("com"), Word("net"), Word("org"),
                                         Word("io")>>)>>)), cleaned),
                  \* cleaned.split(/\s+/).filter(word => word.length > 2 && /^[A-Z]/.test(word))
                  SelectSeq(SplitRx(cleaned, Rx(Plus(RxS))),
                            LAMBDA word : Len(word) > 2 /\ word[1] \in Uppers))

\* the four .replace(..., '') calls, then the recovery on the cleaned text
attemptVendorRecovery(fullContext) ==
  RecoverFrom(
    ReplaceAll(ReplaceAll(ReplaceAll(ReplaceAll(fullContext,
      Rx(Cat(<<Wb, Rep(RxD, 4, Inf), Wb>>)), <<>>),
      RxI(Cat(<<Wb, Word("PAYMENT"), Wb>>)), <<>>),
      RxI(Cat(<<Wb, Word("TRANSFER"), Wb>>)), <<>>),
      RxI(Cat(<<Wb, Word("PURCHASE"), Wb>>)), <<>>))

\* an add that keeps a value added twice
AddUniqueTwice(seq, x) == Append(seq, x)

\* Set.prototype.add over a sequence kept in insertion order
AddUnique(seq, x) ==
  IF \E i \in 1..Len(seq) : seq[i] = x THEN seq ELSE Append(seq, x)

RECURSIVE AddMappingHits(_, _, _)
AddMappingHits(suggestions, contextLower, i) ==
  IF i > Len(vendorMappings) THEN suggestions
  ELSE AddMappingHits(
         IF Includes(contextLower, ToLower(MappingKey(i)))
         THEN AddUnique(suggestions, MappingName(i)) ELSE suggestions,
         contextLower, i + 1)

RECURSIVE AddCategoryHits(_, _, _)
AddCategoryHits(suggestions, contextLower, i) ==
  IF i > Len(categoryHints) THEN suggestions
  ELSE AddCategoryHits(
         IF \E k \in 1..Len(categoryHints[i][2]) :
              Includes(contextLower, Str(categoryHints[i][2][k]))
         THEN AddUnique(suggestions, Str("Likely ") \o Str(categoryHints[i][1]) \o Str(" vendor"))
         ELSE suggestions,
         contextLower, i + 1)

\* parseFloat of digits '.' two digits, in cents
RECURSIVE DigitsVal(_)
DigitsVal(ds) == IF ds = <<>> THEN 0 ELSE 10 * DigitsVal(SubSeq(ds, 1, Len(ds) - 1)) + (CHOOSE n \in 0..9 : Str("0123456789")[n + 1] = ds[Len(ds)])

ParseCents(txt) ==
  LET parts == SplitChar(txt, ".")
  IN  100 * DigitsVal(parts[1]) + DigitsVal(parts[2])

\* amount % 1 === 0.99 in IEEE doubles is true of 0.99 and 1.99 only
AmountHint(suggestions, amount) ==
  IF amount >= 500 /\ amount <= 1500
  THEN AddUnique(suggestions, Str("Possible food/coffee purchase"))
  ELSE IF amount >= 999 /\ amount <= 1999 /\ amount \in {99, 199}
  THEN AddUnique(suggestions, Str("Possible subscription service"))
  ELSE suggestions

MatchedAmountHint(suggestions, context, m) ==
  IF m.start < 0 THEN suggestions
  ELSE AmountHint(suggestions, ParseCents(Group1(context, m)))

\* context.match(/\$(\d+\.\d{2})/)
AddAmountHint(suggestions, context) ==
  MatchedAmountHint(suggestions, context,
                    RxExec(Rx(Cat(<<Lit("$"), Cap(Cat(<<Plus(RxD), Lit("."),
                                                       Rep(RxD, 2, 2)>>))>>)), context))

MaxSuggestions == 5

\* Array.from(suggestions).slice(0, 5)
FirstSuggestions(suggestions) ==
  SubSeq(suggestions, 1,
         IF Len(suggestions) < MaxSuggestions THEN Len(suggestions) ELSE MaxSuggestions)

suggestPossibleVendors(context) ==
  FirstSuggestions(
    AddAmountHint(AddCategoryHits(AddMappingHits(<<>>, ToLower(context), 1),
                                  ToLower(context), 1),
                  context))

\* extractByLookup: the first mapping whose key occurs in the context
extractByLookup(fullContext) ==
  LET contextLower == ToLower(fullContext)
      hits == {i \in 1..Len(vendorMappings) : Includes(contextLower, ToLower(MappingKey(i)))}
  IN  IF hits = {} THEN <<>>
      ELSE MappingName(CHOOSE i \in hits : \A j \in hits : i <= j)

\* the switch over extractionRules.method
Extraction(description, processor, fullContext) ==
  CASE processor.method = "delimiter" ->
         extractByDelimiter(description, processor.delimiter, processor.cleanupPatterns)
    [] processor.method = "position" ->
         extractByPosition(description, processor.position, processor.cleanupPatterns)
    [] processor.method = "regex" ->
         extractByRegex(description, processor.regex, processor.cleanupPatterns)
    [] processor.method = "lookup" -> extractByLookup(fullContext)

ReviewThreshold == 80

MinVendorLength == 3

EmptyConfidence == 10

\* the cleaned extraction, or the canonical name lookupKnownVendor finds for it
MappedOrCleaned(cleaned) ==
  IF lookupKnownVendor(cleaned) # <<>> THEN lookupKnownVendor(cleaned) ELSE cleaned

ExtractedVendor(description, processor, fullContext) ==
  MappedOrCleaned(cleanVendorName(Extraction(description, processor, fullContext)))

NeedsReview(extractedVendor, processor) ==
  \/ Len(extractedVendor) < MinVendorLength
  \/ isSuspiciousExtraction(extractedVendor)
  \/ processor.confidence < ReviewThreshold

\* the object extractFromProcessor returns
ProcessorResult(description, processor, fullContext, extractedVendor, needsReview, confidence) ==
  [originalDescription |-> description,
   processor |-> processor.processor,
   extractedVendor |-> IF extractedVendor # <<>> THEN extractedVendor ELSE UnknownVendor,
   confidence |-> IF extractedVendor # <<>> THEN confidence ELSE EmptyConfidence,
   category |-> inferCategory(IF extractedVendor # <<>> THEN extractedVendor ELSE fullContext),
   extractionMethod |-> processor.method,
   isObscured |-> TRUE,
   needsManualReview |-> needsReview,
   hasPossibleVendors |-> needsReview,
   possibleVendors |-> IF needsReview THEN suggestPossibleVendors(fullContext) ELSE <<>>]

ResultFor(description, processor, fullContext, extractedVendor) ==
  ProcessorResult(description, processor, fullContext, extractedVendor,
                  NeedsReview(extractedVendor, processor), processor.confidence)

\* ResultFor with the confidence dropped whenever review is needed
ResultForLowered(description, processor, fullContext, extractedVendor) ==
  ProcessorResult(description, processor, fullContext, extractedVendor,
                  NeedsReview(extractedVendor, processor),
                  IF NeedsReview(extractedVendor, processor)
                  THEN EmptyConfidence ELSE processor.confidence)

\* extractFromProcessor with the confidence dropped whenever review is needed
extractFromProcessorLowered(description, processor, fullContext) ==
  ResultForLowered(description, processor, fullContext,
                   ExtractedVendor(description, processor, fullContext))

extractFromProcessor(description, processor, fullContext) ==
  ResultFor(description, processor, fullContext,
            ExtractedVendor(description, processor, fullContext))

\* [description, extendedDetails, statementDescription].filter(Boolean).join(' ')
AllDescriptions(description, extendedDetails, statementDescription) ==
  Join(SelectSeq(<<description, extendedDetails, statementDescription>>,
                 LAMBDA x : x # <<>>), <<" ">>)

ProcessorMatches(i, description) == AnyTest(processorPatterns[i].patterns, description)

\* the entry the nested loops over processors and patterns stop at, 0 for none
RECURSIVE FirstProcessorFrom(_, _)
FirstProcessorFrom(description, i) ==
  IF i > Len(processorPatterns) THEN 0
  ELSE IF ProcessorMatches(i, description) THEN i
  ELSE FirstProcessorFrom(description, i + 1)

\* the loops without the early return: the last matching entry wins
RECURSIVE LastProcessorFrom(_, _)
LastProcessorFrom(description, i) ==
  IF i < 1 THEN 0
  ELSE IF ProcessorMatches(i, description) THEN i
  ELSE LastProcessorFrom(description, i - 1)

LastProcessor(description) == LastProcessorFrom(description, Len(processorPatterns))

FirstProcessor(description) == FirstProcessorFrom(description, 1)

SuspiciousConfidence == 30

DirectConfidence == 100

\* the object returned for a suspicious generic descriptor
SuspiciousResult(description, allDescriptions) ==
  [originalDescription |-> description,
   processor |-> "Unknown",
   extractedVendor |-> attemptVendorRecovery(allDescriptions),
   confidence |-> SuspiciousConfidence,
   category |-> "",
   extractionMethod |-> "suspicious_pattern",
   isObscured |-> TRUE,
   needsManualReview |-> TRUE,
   hasPossibleVendors |-> TRUE,
   possibleVendors |-> suggestPossibleVendors(allDescriptions)]

\* the object returned for a description that is not obscured
DirectResult(description) ==
  [originalDescription |-> description,
   processor |-> "Direct",
   extractedVendor |-> description,
   confidence |-> DirectConfidence,
   category |-> inferCategory(description),
   extractionMethod |-> "direct",
   isObscured |-> FALSE,
   needsManualReview |-> FALSE,
   hasPossibleVendors |-> FALSE,
   possibleVendors |-> <<>>]

\* the three returns of unmaskVendor, for the matched entry p (0 for none)
UnmaskedBy(description, allDescriptions, p) ==
  IF p # 0 THEN extractFromProcessor(description, processorPatterns[p], allDescriptions)
  ELSE IF AnyTest(suspiciousDescriptors, description)
  THEN SuspiciousResult(description, allDescriptions)
  ELSE DirectResult(description)

\* unmaskVendor with the processor patterns tested on the combined context
unmaskVendorOnContext(description, extendedDetails, statementDescription) ==
  UnmaskedBy(description,
             AllDescriptions(description, extendedDetails, statementDescription),
             FirstProcessor(AllDescriptions(description, extendedDetails, statementDescription)))

unmaskVendor(description, extendedDetails, statementDescription) ==
  UnmaskedBy(description,
             AllDescriptions(description, extendedDetails, statementDescription),
             FirstProcessor(description))

\* ------------------------------------------------------------------------
\* AmexSpendingAnalyzer: the static tables and the name functions
\* ------------------------------------------------------------------------

subscriptionKeywords ==
  <<"subscription", "membership", "premium", "plan", "recurring",
    "auto-renew", "renewal", "monthly", "annual", "weekly",
    "netflix", "spotify", "hulu", "disney", "amazon prime",
    "adobe", "microsoft", "google", "apple", "dropbox",
    "gym", "fitness", "club", "insurance", "software">>

\* fraudPatterns, amounts in cents
suspiciousAmounts == {99900, 39900, 29900, 19900, 9999}

highDailyThreshold == 10000

blacklistedKeywords == <<"verify", "urgent", "suspended", "locked">>

knownScamPatterns ==
  RxI(Cat(<<Wb, Alt(<<Word("prize"), Word("winner"), Word("claim"),
                      Word("verify account"), Word("suspended")>>), Wb>>))

genericNamePattern ==
  Rx(Cat(<<Bol, Alt(<<Word("email"), Word("mail"), Word("account"), Word("verify"),
                      Word("service")>>), Eol>>))

\* companyNormalization in insertion order: <<pattern, replacement>>
companyNormalization ==
  << <<"amazonses", "Amazon">>, <<"aws", "Amazon Web Services">>, <<"msft", "Microsoft">>,
     <<"goog", "Google">>, <<"aapl", "Apple">>, <<"nflx", "Netflix">>,
     <<"spfy", "Spotify">>, <<"adbe", "Adobe">>, <<"uber", "Uber">>, <<"lyft", "Lyft">>,
     <<"amzn", "Amazon">>, <<"wmt", "Walmart">>, <<"tgt", "Target">>,
     <<"sbux", "Starbucks">> >>

\* AmexSpendingAnalyzer.inferCategory: <<category, words of the alternation>>
categoryRules ==
  << <<"Food & Dining", <<"restaurant", "food", "pizza", "burger", "cafe", "coffee">> >>,
     <<"Transportation", <<"uber", "lyft", "taxi", "transit", "parking">> >>,
     <<"Shopping", <<"amazon", "walmart", "target", "store", "shop">> >>,
     <<"Entertainment", <<"netflix", "spotify", "hulu", "disney", "entertainment">> >>,
     <<"Gas & Fuel", <<"gas", "fuel", "shell", "exxon", "chevron">> >>,
     <<"Travel & Lodging", <<"hotel", "airbnb", "lodging", "resort">> >>,
     <<"Financial Services", <<"insurance", "bank", "finance", "payment">> >>,
     <<"Health & Wellness", <<"gym", "fitness", "health", "medical", "pharmacy">> >>,
     <<"Software & Services", <<"software", "saas", "cloud", "adobe", "microsoft">> >> >>

analyzerInferCategory(description) ==
  LET desc == ToLower(description)
      hits == {i \in 1..Len(categoryRules) :
                 \E k \in 1..Len(categoryRules[i][2]) :
                   Includes(desc, Str(categoryRules[i][2][k]))}
  IN  IF hits = {} THEN "Other"
      ELSE categoryRules[CHOOSE i \in hits : \A j \in hits : i <= j][1]

Abs(x) == IF x < 0 THEN -x ELSE x

\* parseTransaction on a row whose date and amount are already typed
parseTransaction(row) ==
  [date |-> row.date,
   description |-> row.description,
   amount |-> Abs(row.amount),
   extendedDetails |-> row.extendedDetails,
   appearsOnStatementAs |-> row.appearsOnStatementAs,
   category |-> IF row.category # "" THEN row.category
                ELSE analyzerInferCategory(row.description)]

\* StripReference without the removal of the store number
StripReferenceKeepStore(name) ==
  Trim(Replace(Replace(name,
      Rx(Cat(<<Lit("*"), Plus(RxD), Eol>>)), <<>>),
      Rx(Cat(<<Plus(RxS), Rep(RxD, 2, 2), Lit("/"), Rep(RxD, 2, 2), Eol>>)), <<>>))

\* name.replace(/\*\d+$/, '').replace(/\s+\d{2}\/\d{2}$/, '').replace(/\s+#\d+$/, '').trim()
StripReference(name) ==
  Trim(Replace(Replace(Replace(name,
      Rx(Cat(<<Lit("*"), Plus(RxD), Eol>>)), <<>>),
      Rx(Cat(<<Plus(RxS), Rep(RxD, 2, 2), Lit("/"), Rep(RxD, 2, 2), Eol>>)), <<>>),
      Rx(Cat(<<Plus(RxS), Lit("#"), Plus(RxD), Eol>>)), <<>>))

\* the first non-empty field of the || chain, 'Unknown Vendor' when all are empty
FirstName(candidates) == IF candidates = <<>> THEN UnknownVendor ELSE candidates[1]

extractVendorName(transaction) ==
  StripReference(FirstName(SelectSeq(<<transaction.appearsOnStatementAs,
                                       transaction.description,
                                       transaction.extendedDetails>>,
                                     LAMBDA x : x # <<>>)))

LeadingRun(normalized, m) == IF m.start >= 0 THEN Group1(normalized, m) ELSE normalized

\* the loop over companyNormalization, then the match of /^([a-z]+(?:\s+[a-z]+)?)/
NormalizedKey(normalized) ==
  LET hits == {i \in 1..Len(companyNormalization) :
                 Includes(normalized, Str(companyNormalization[i][1]))}
  IN  IF hits # {} THEN Str(companyNormalization[CHOOSE i \in hits : \A j \in hits : i <= j][2])
      ELSE LeadingRun(normalized,
                      RxExec(Rx(Cat(<<Bol, Cap(Cat(<<Plus(Set(Lowers)),
                                                     Opt(Cat(<<Plus(RxS),
                                                               Plus(Set(Lowers))>>))>>))>>)),
                             normalized))

\* name.toLowerCase().replace(/\s+(inc|llc|ltd|corp|company|co)\.?$/i, '')
normalizeVendorName(name) ==
  NormalizedKey(Replace(ToLower(name),
                        RxI(Cat(<<Plus(RxS),
                                  Alt(<<Word("inc"), Word("llc"), Word("ltd"), Word("corp"),
                                        Word("company"), Word("co")>>),
                                  Opt(Lit(".")), Eol>>)),
                        <<>>))

DisplayFor(name, normalized) ==
  LET hits == {i \in 1..Len(companyNormalization) :
                 normalized = ToLower(Str(companyNormalization[i][2]))}
  IN  IF hits # {} THEN Str(companyNormalization[CHOOSE i \in hits : \A j \in hits : i <= j][2])
      ELSE TitleCase(name)

getDisplayName(name) == DisplayFor(name, normalizeVendorName(name))

\* ------------------------------------------------------------------------
\* AmexSpendingAnalyzer: profiles and the per-profile analyzers
\* ------------------------------------------------------------------------

\* a quotient kept exact: num / den
Ratio(num, den) == [num |-> num, den |-> den]

NoPattern ==
  [frequency |-> "none", expectedAmount |-> Ratio(0, 1), variance |-> [sq |-> 0, den |-> 1],
   confidence |-> 0, nextExpectedDate |-> 0]

\* NewProfile with isRecurring initialised to true
NewProfileRecurring(vendorName, normalizedName, displayName, transaction, unmaskedResult) ==
  [name |-> vendorName,
   normalizedName |-> normalizedName,
   displayName |-> displayName,
   totalSpent |-> 0,
   transactionCount |-> 0,
   firstSeen |-> transaction.date,
   lastSeen |-> transaction.date,
   averageAmount |-> Ratio(0, 1),
   minAmount |-> transaction.amount,
   maxAmount |-> transaction.amount,
   isRecurring |-> TRUE,
   recurringPattern |-> NoPattern,
   category |-> IF unmaskedResult.category # "" THEN unmaskedResult.category
                ELSE IF transaction.category # "" THEN transaction.category
                ELSE "Other",
   transactions |-> <<>>,
   fraudScore |-> 0,
   metadata |->
     [isSubscription |-> FALSE,
      isFraudulent |-> FALSE,
      anomalyScore |-> 0,
      tags |-> <<>>,
      isObscured |-> unmaskedResult.isObscured,
      originalDescription |-> IF unmaskedResult.isObscured THEN transaction.description ELSE <<>>,
      processor |-> IF unmaskedResult.processor # "Direct" THEN unmaskedResult.processor ELSE "",
      unmaskingConfidence |-> unmaskedResult.confidence,
      needsManualReview |-> unmaskedResult.needsManualReview,
      hasPossibleVendors |-> unmaskedResult.hasPossibleVendors,
      possibleVendors |-> unmaskedResult.possibleVendors]]

\* the profile processTransactions stores on the first sight of a key;
\* fraudScore records the local variable of detectFraud
NewProfile(vendorName, normalizedName, displayName, transaction, unmaskedResult) ==
  [name |-> vendorName,
   normalizedName |-> normalizedName,
   displayName |-> displayName,
   totalSpent |-> 0,
   transactionCount |-> 0,
   firstSeen |-> transaction.date,
   lastSeen |-> transaction.date,
   averageAmount |-> Ratio(0, 1),
   minAmount |-> transaction.amount,
   maxAmount |-> transaction.amount,
   isRecurring |-> FALSE,
   recurringPattern |-> NoPattern,
   category |-> IF unmaskedResult.category # "" THEN unmaskedResult.category
                ELSE IF transaction.category # "" THEN transaction.category
                ELSE "Other",
   transactions |-> <<>>,
   fraudScore |-> 0,
   metadata |->
     [isSubscription |-> FALSE,
      isFraudulent |-> FALSE,
      anomalyScore |-> 0,
      tags |-> <<>>,
      isObscured |-> unmaskedResult.isObscured,
      originalDescription |-> IF unmaskedResult.isObscured THEN transaction.description ELSE <<>>,
      processor |-> IF unmaskedResult.processor # "Direct" THEN unmaskedResult.processor ELSE "",
      unmaskingConfidence |-> unmaskedResult.confidence,
      needsManualReview |-> unmaskedResult.needsManualReview,
      hasPossibleVendors |-> unmaskedResult.hasPossibleVendors,
      possibleVendors |-> unmaskedResult.possibleVendors]]

Min2(a, b) == IF a < b THEN a ELSE b

Max2(a, b) == IF a > b THEN a ELSE b

\* an update that leaves firstSeen at the date of the first transaction read
AddTransactionKeepFirstSeen(vendor, transaction) ==
  [vendor EXCEPT
     !.transactions = Append(@, transaction),
     !.totalSpent = @ + transaction.amount,
     !.transactionCount = @ + 1,
     !.minAmount = Min2(@, transaction.amount),
     !.maxAmount = Max2(@, transaction.amount),
     !.lastSeen = IF transaction.date > @ THEN transaction.date ELSE @]

\* the update of the profile of the key by one transaction
AddTransaction(vendor, transaction) ==
  [vendor EXCEPT
     !.transactions = Append(@, transaction),
     !.totalSpent = @ + transaction.amount,
     !.transactionCount = @ + 1,
     !.minAmount = Min2(@, transaction.amount),
     !.maxAmount = Max2(@, transaction.amount),
     !.firstSeen = IF transaction.date < @ THEN transaction.date ELSE @,
     !.lastSeen = IF transaction.date > @ THEN transaction.date ELSE @]

\* Array.prototype.sort by date (stable)
RECURSIVE InsertByDate(_, _)
InsertByDate(sorted, x) ==
  IF sorted = <<>> THEN <<x>>
  ELSE IF sorted[Len(sorted)].date <= x.date THEN Append(sorted, x)
  ELSE Append(InsertByDate(SubSeq(sorted, 1, Len(sorted) - 1), x), sorted[Len(sorted)])

RECURSIVE SortByDate(_)
SortByDate(txs) ==
  IF txs = <<>> THEN <<>>
  ELSE InsertByDate(SortByDate(SubSeq(txs, 1, Len(txs) - 1)), txs[Len(txs)])

\* the day gaps between consecutive transactions
Intervals(sorted) == [i \in 1..(Len(sorted) - 1) |-> sorted[i + 1].date - sorted[i].date]

RECURSIVE SumSeq(_)
SumSeq(xs) == IF xs = <<>> THEN 0 ELSE xs[1] + SumSeq(Tail(xs))

\* n^2 times the population variance of xs
ScaledVariance(xs) == Len(xs) * SumSeq([i \in 1..Len(xs) |-> xs[i] * xs[i]]) - SumSeq(xs) * SumSeq(xs)

\* lo <= mean(xs) <= hi
MeanWithin(xs, lo, hi) == lo * Len(xs) <= SumSeq(xs) /\ SumSeq(xs) <= hi * Len(xs)

\* population standard deviation of xs < limit
StdDevBelow(xs, limit) == ScaledVariance(xs) < limit * limit * Len(xs) * Len(xs)

\* the if / else-if chain of analyzeRecurringPattern, in its order
\* the rules with a weekly bucket that accepts a deviation below 4
frequencyRulesLooseWeekly ==
  << [frequency |-> "daily", lo |-> 1, hi |-> 2, dev |-> 1, confidence |-> 90],
     [frequency |-> "weekly", lo |-> 6, hi |-> 8, dev |-> 4, confidence |-> 85],
     [frequency |-> "biweekly", lo |-> 13, hi |-> 15, dev |-> 3, confidence |-> 85],
     [frequency |-> "monthly", lo |-> 28, hi |-> 32, dev |-> 5, confidence |-> 90],
     [frequency |-> "quarterly", lo |-> 85, hi |-> 95, dev |-> 10, confidence |-> 80],
     [frequency |-> "annual", lo |-> 350, hi |-> 380, dev |-> 30, confidence |-> 85] >>

frequencyRules ==
  << [frequency |-> "daily", lo |-> 1, hi |-> 2, dev |-> 1, confidence |-> 90],
     [frequency |-> "weekly", lo |-> 6, hi |-> 8, dev |-> 2, confidence |-> 85],
     [frequency |-> "biweekly", lo |-> 13, hi |-> 15, dev |-> 3, confidence |-> 85],
     [frequency |-> "monthly", lo |-> 28, hi |-> 32, dev |-> 5, confidence |-> 90],
     [frequency |-> "quarterly", lo |-> 85, hi |-> 95, dev |-> 10, confidence |-> 80],
     [frequency |-> "annual", lo |-> 350, hi |-> 380, dev |-> 30, confidence |-> 85] >>

RuleMatches(k, intervals) ==
  /\ MeanWithin(intervals, frequencyRules[k].lo, frequencyRules[k].hi)
  /\ StdDevBelow(intervals, frequencyRules[k].dev)

\* the first rule of the chain that holds, 0 for none
RECURSIVE FirstRuleFrom(_, _)
FirstRuleFrom(intervals, k) ==
  IF k > Len(frequencyRules) THEN 0
  ELSE IF RuleMatches(k, intervals) THEN k
  ELSE FirstRuleFrom(intervals, k + 1)

\* lastDate.getDate() + Math.round(intervalDays), intervalDays = num / den >= 0
calculateNextDate(lastDate, num, den) == lastDate + (2 * num + den) \div (2 * den)

RecurringThreshold == 70

MinRecurringCount == 2

analyzeRecurringPattern(vendor) ==
  IF vendor.transactionCount < MinRecurringCount THEN vendor
  ELSE
    LET sorted == SortByDate(vendor.transactions)
        intervals == Intervals(sorted)
        k == FirstRuleFrom(intervals, 1)
        v1 == [vendor EXCEPT !.transactions = sorted]
    IN  IF Len(intervals) = 0 THEN v1
        ELSE IF k # 0 /\ frequencyRules[k].confidence > RecurringThreshold
        THEN [v1 EXCEPT
                !.isRecurring = TRUE,
                !.recurringPattern =
                  [frequency |-> frequencyRules[k].frequency,
                   expectedAmount |-> vendor.averageAmount,
                   variance |-> [sq |-> ScaledVariance(intervals), den |-> Len(intervals)],
                   confidence |-> frequencyRules[k].confidence,
                   nextExpectedDate |->
                     calculateNextDate(vendor.lastSeen, SumSeq(intervals), Len(intervals))]]
        ELSE v1

ContainsKeyword(text, keywords) ==
  \E k \in 1..Len(keywords) : Includes(text, Str(keywords[k]))

LikelyRecurringThreshold == 80

\* detectSubscription with the recurrence test confidence > 0.9
detectSubscriptionStrict(vendor) ==
  LET nameLC == ToLower(vendor.name)
      descLC == IF vendor.transactions = <<>> THEN <<>>
                ELSE ToLower(vendor.transactions[1].description)
      hasKeyword == \/ ContainsKeyword(nameLC, subscriptionKeywords)
                    \/ ContainsKeyword(descLC, subscriptionKeywords)
      isLikelyRecurring == /\ vendor.isRecurring
                           /\ vendor.recurringPattern.confidence > 90
      uniqueAmounts == {vendor.transactions[i].amount : i \in 1..Len(vendor.transactions)}
      hasConsistentAmount == \/ Cardinality(uniqueAmounts) = 1
                             \/ (Cardinality(uniqueAmounts) <= 2 /\ vendor.transactionCount > 3)
      isSubscription == hasKeyword \/ (isLikelyRecurring /\ hasConsistentAmount)
  IN  [vendor EXCEPT
         !.metadata.isSubscription = isSubscription,
         !.metadata.tags = IF isSubscription THEN Append(@, "subscription") ELSE @]

\* detectSubscription without the push of the tag
detectSubscriptionUntagged(vendor) ==
  LET nameLC == ToLower(vendor.name)
      descLC == IF vendor.transactions = <<>> THEN <<>>
                ELSE ToLower(vendor.transactions[1].description)
      hasKeyword == \/ ContainsKeyword(nameLC, subscriptionKeywords)
                    \/ ContainsKeyword(descLC, subscriptionKeywords)
      isLikelyRecurring == /\ vendor.isRecurring
                           /\ vendor.recurringPattern.confidence > LikelyRecurringThreshold
      uniqueAmounts == {vendor.transactions[i].amount : i \in 1..Len(vendor.transactions)}
      hasConsistentAmount == \/ Cardinality(uniqueAmounts) = 1
                             \/ (Cardinality(uniqueAmounts) <= 2 /\ vendor.transactionCount > 3)
      isSubscription == hasKeyword \/ (isLikelyRecurring /\ hasConsistentAmount)
  IN  [vendor EXCEPT
         !.metadata.isSubscription = isSubscription]

detectSubscription(vendor) ==
  LET nameLC == ToLower(vendor.name)
      descLC == IF vendor.transactions = <<>> THEN <<>>
                ELSE ToLower(vendor.transactions[1].description)
      hasKeyword == \/ ContainsKeyword(nameLC, subscriptionKeywords)
                    \/ ContainsKeyword(descLC, subscriptionKeywords)
      isLikelyRecurring == /\ vendor.isRecurring
                           /\ vendor.recurringPattern.confidence > LikelyRecurringThreshold
      uniqueAmounts == {vendor.transactions[i].amount : i \in 1..Len(vendor.transactions)}
      hasConsistentAmount == \/ Cardinality(uniqueAmounts) = 1
                             \/ (Cardinality(uniqueAmounts) <= 2 /\ vendor.transactionCount > 3)
      isSubscription == hasKeyword \/ (isLikelyRecurring /\ hasConsistentAmount)
  IN  [vendor EXCEPT
         !.metadata.isSubscription = isSubscription,
         !.metadata.tags = IF isSubscription THEN Append(@, "subscription") ELSE @]

\* the score one pass of the loop over the amounts adds
AmountScore(vendor, amount) ==
  LET dailyCharges ==
        Cardinality({i \in 1..Len(vendor.transactions) :
                       vendor.transactions[i].date = vendor.transactions[1].date})
  IN  (IF amount \in suspiciousAmounts THEN 20 ELSE 0)
      + (IF dailyCharges > 1 /\ amount > highDailyThreshold THEN 50 ELSE 0)

FraudThreshold == 50

\* a flag raised from the threshold on
detectFraudFromThreshold(vendor) ==
  LET name == ToLower(vendor.name)
      fraudScore ==
        SumSeq([i \in 1..Len(vendor.transactions) |->
                  AmountScore(vendor, vendor.transactions[i].amount)])
        + (IF ContainsKeyword(name, blacklistedKeywords) THEN 30 ELSE 0)
        + (IF RxTest(knownScamPatterns, name) THEN 40 ELSE 0)
        + (IF RxTest(genericNamePattern, name) THEN 25 ELSE 0)
  IN  [vendor EXCEPT
         !.fraudScore = fraudScore,
         !.metadata.isFraudulent = fraudScore >= FraudThreshold,
         !.metadata.anomalyScore = Max2(@, fraudScore),
         !.metadata.tags = IF fraudScore >= FraudThreshold
                           THEN Append(@, "potential_fraud") ELSE @]

detectFraud(vendor) ==
  LET name == ToLower(vendor.name)
      fraudScore ==
        SumSeq([i \in 1..Len(vendor.transactions) |->
                  AmountScore(vendor, vendor.transactions[i].amount)])
        + (IF ContainsKeyword(name, blacklistedKeywords) THEN 30 ELSE 0)
        + (IF RxTest(knownScamPatterns, name) THEN 40 ELSE 0)
        + (IF RxTest(genericNamePattern, name) THEN 25 ELSE 0)
  IN  [vendor EXCEPT
         !.fraudScore = fraudScore,
         !.metadata.isFraudulent = fraudScore > FraudThreshold,
         !.metadata.anomalyScore = Max2(@, fraudScore),
         !.metadata.tags = IF fraudScore > FraudThreshold
                           THEN Append(@, "potential_fraud") ELSE @]

getExpectedInterval(frequency) ==
  CASE frequency = "daily" -> 1
    [] frequency = "weekly" -> 7
    [] frequency = "biweekly" -> 14
    [] frequency = "monthly" -> 30
    [] frequency = "quarterly" -> 90
    [] frequency = "annual" -> 365
    [] OTHER -> 30

AnomalyTagThreshold == 50

MaxScore == 100

RECURSIVE Gcd(_, _)
Gcd(a, b) == IF b = 0 THEN a ELSE Gcd(b, a % b)

RECURSIVE GcdSeq(_)
GcdSeq(xs) == IF xs = <<>> THEN 0 ELSE Gcd(xs[1], GcdSeq(Tail(xs)))

\* a test of the variance that never holds
HighVarianceNever(amounts, total, count) == FALSE

\* calculateStdDev(amounts) > averageAmount * 0.5 with averageAmount = total / count;
\* both sides are divided by the common divisor of the amounts
HighVariance(amounts, total, count) ==
  LET g == Max2(1, Gcd(total, GcdSeq(amounts)))
      scaled == [i \in 1..Len(amounts) |-> amounts[i] \div g]
  IN  4 * count * count * ScaledVariance(scaled)
        > Len(amounts) * Len(amounts) * (total \div g) * (total \div g)

\* the score before the cap, in hundredths
AnomalySum(vendor) ==
  LET amounts == [i \in 1..Len(vendor.transactions) |-> vendor.transactions[i].amount]
      total == vendor.averageAmount.num
      count == vendor.averageAmount.den
      \* recentAmount > averageAmount * 2
      spike == amounts[Len(amounts)] * count > 2 * total
      expectedInterval == getExpectedInterval(vendor.recurringPattern.frequency)
      oddTiming == 10 * Abs((IF Len(vendor.transactions) < 2 THEN 0
                              ELSE vendor.lastSeen
                                   - vendor.transactions[Len(vendor.transactions) - 1].date)
                             - expectedInterval) > 3 * expectedInterval
  IN  vendor.metadata.anomalyScore
      + (IF vendor.transactionCount > 2 /\ HighVariance(amounts, total, count) THEN 20 ELSE 0)
      + (IF vendor.transactionCount > 2 /\ spike THEN 30 ELSE 0)
      + (IF vendor.isRecurring /\ vendor.recurringPattern.frequency # "none" /\ oddTiming
         THEN 15 ELSE 0)

\* calculateAnomalyScore without the Math.min cap
calculateAnomalyScoreUncapped(vendor) ==
  LET score == AnomalySum(vendor)
  IN  [vendor EXCEPT
         !.metadata.anomalyScore = score,
         !.metadata.tags = IF score > AnomalyTagThreshold
                           THEN Append(@, "anomaly_detected") ELSE @]

calculateAnomalyScore(vendor) ==
  LET score == AnomalySum(vendor)
  IN  [vendor EXCEPT
         !.metadata.anomalyScore = Min2(score, MaxScore),
         !.metadata.tags = IF score > AnomalyTagThreshold
                           THEN Append(@, "anomaly_detected") ELSE @]

\* the body of the loop over vendors.values()
\* the analyzers with detectSubscription run before analyzeRecurringPattern
AnalyzeProfileSubscriptionFirst(vendor) ==
  LET v0 == [vendor EXCEPT !.averageAmount = Ratio(vendor.totalSpent, vendor.transactionCount)]
  IN  calculateAnomalyScore(detectFraud(analyzeRecurringPattern(detectSubscription(v0))))

AnalyzeProfile(vendor) ==
  LET v0 == [vendor EXCEPT !.averageAmount = Ratio(vendor.totalSpent, vendor.transactionCount)]
  IN  calculateAnomalyScore(detectFraud(detectSubscription(analyzeRecurringPattern(v0))))

\* ------------------------------------------------------------------------
\* State
\* ------------------------------------------------------------------------

VARIABLES
  called,        \* unmaskVendor has returned at least once
  call,          \* the arguments of the latest unmaskVendor call
  result,        \* the UnmaskedVendor it returned
  transactions,  \* AmexSpendingAnalyzer.transactions
  vendors,       \* AmexSpendingAnalyzer.vendors, in Map insertion order
  pc,            \* position of parseAmexCsv / processTransactions
  idx,           \* index of the next transaction or profile of the running loop
  runs,          \* parseAmexCsv calls made on this analyzer
  analyzer,      \* AmexMcpServer.analyzer: the analyzer the field refers to
  analyzers,     \* the analyzers the server has constructed: the file each holds
  requests,      \* the tool requests: position of the handler and its locals
  unmaskedVendors,  \* the argument of the last generateObscuredVendorReport call
  report            \* what the call returned

vars ==
  <<called, call, result, transactions, vendors, pc, idx, runs, analyzer, analyzers, requests,
    unmaskedVendors, report>>

serverVars == <<analyzer, analyzers, requests>>

reportVars == <<unmaskedVendors, report>>

Requests == {"first", "second"}

\* an analyzer that has parsed nothing holds no file
NoFile == "none"

CsvPaths == {"january.csv", "february.csv", "march.csv"}

\* a request that has not arrived
IdleRequest == [pc |-> "idle", csvPath |-> NoFile, target |-> 0, analyzed |-> 0, held |-> NoFile]

NoCall == [description |-> <<>>, extendedDetails |-> <<>>, statementDescription |-> <<>>]

\* the value of result before any call: no description, nothing obscured
NoResult == DirectResult(<<>>)

\* a fresh unmasker and a fresh analyzer
Init ==
  /\ called = FALSE
  /\ call = NoCall
  /\ result = NoResult
  /\ transactions = <<>>
  /\ vendors = <<>>
  /\ pc = "idle"
  /\ idx = 0
  /\ runs = 0
  /\ analyzer = 1
  /\ analyzers = <<NoFile>>
  /\ requests = [r \in Requests |-> IdleRequest]
  /\ unmaskedVendors = <<>>
  /\ report = [totalObscured |-> 0, byProcessor |-> <<>>, needingReview |-> <<>>,
               suspiciousPatterns |-> <<>>]

\* ------------------------------------------------------------------------
\* Inputs of the unmasker
\* ------------------------------------------------------------------------

Prefixes ==
  {"", "PAYPAL *", "PAYPAL ", "PP*1234 ", "SQ *", "SQUARE PAYPAL *", "STRIPE: ", "STR*",
   "VENMO ", "VENMO ZELLE ", "CASH APP*", "ZELLE TO ", "TST*", "TOAST ", "CLV*",
   "CLOVER ", "APPLE PAY ", "APL*", "GOOGLE *", "G.CO/"}

Bodies ==
  {"", "GRUBHUB", "8472639", "BLUE BOTTLE", "AB", "ABC", "AB123", "PAYMENT", "payment",
   "ROOF CAFE INC", "STARBUCKS STORE #123", "JOHN PAYMENT", "NETFLIX.COM 1234567890",
   "X*Y", "12 TACOS", "JOES PIZZA KITCHEN LLC"}

Descriptions == {Str(a) \o Str(b) : a \in Prefixes, b \in Bodies}

\* <<extendedDetails, statementDescription>>
Contexts ==
  { <<"", "">>,
    <<"PAYPAL *ETSY", "">>,
    <<"joe@acme.com $12.99", "COFFEE MONTHLY">>,
    <<"ONLYFANS OFFER $12.99", "COFFEE MONTHLY">> }

\* ------------------------------------------------------------------------
\* The unmasker called on its own
\* ------------------------------------------------------------------------

\* one call per behaviour: the unmasker keeps no state between calls
UnmaskCall ==
  \E d \in Descriptions, c \in Contexts :
    /\ called = FALSE
    /\ called' = TRUE
    /\ call' = [description |-> d, extendedDetails |-> Str(c[1]),
                statementDescription |-> Str(c[2])]
    /\ result' = unmaskVendor(d, Str(c[1]), Str(c[2]))
    /\ UNCHANGED <<transactions, vendors, pc, idx, runs, serverVars, reportVars>>

SpecUnmask == Init /\ [][UnmaskCall]_vars

\* ------------------------------------------------------------------------
\* One run of parseAmexCsv on a fresh analyzer
\* ------------------------------------------------------------------------

MaxTx == 4

Row(description, date, amount) ==
  [date |-> date, description |-> Str(description), amount |-> amount,
   extendedDetails |-> <<>>, appearsOnStatementAs |-> <<>>, category |-> ""]

\* the rows a CSV file is made of
RowPool ==
  { Row("ACME TOOLS", 0, -1599),
    Row("ACME TOOLS", 30, -1599),
    Row("ACME TOOLS", 61, -1599),
    Row("ACME TOOLS", 91, -1599),
    Row("ACME TOOLS PREMIUM", 30, -3198),
    Row("PAYPAL *GRUBHUB", 5, -3000),
    Row("SQ *8472639", 7, -99900),
    Row("VERIFY ACCOUNT", 44, 500) }

RECURSIVE SeqsUpTo(_, _)
SeqsUpTo(set, n) ==
  IF n = 0 THEN {<<>>}
  ELSE LET shorter == SeqsUpTo(set, n - 1)
       IN  shorter \cup {Append(q, x) : q \in shorter, x \in set}

\* a row with all three fields the vendor name can be taken from
NameRow(description, appearsOnStatementAs, extendedDetails) ==
  [date |-> 0, description |-> Str(description), amount |-> -1000,
   extendedDetails |-> Str(extendedDetails),
   appearsOnStatementAs |-> Str(appearsOnStatementAs), category |-> ""]

NameRows ==
  { NameRow(d, s, e) :
      d \in {"", "PAYPAL *GRUBHUB", "STARBUCKS STORE #123", "PAYMENT", "ACME*1234",
             "ACME TOOLS 05/12"},
      s \in {"", "JOES DINER #45", "SHOP 9 01/02*77"},
      e \in {"", "Extended Note"} }

\* a file holds up to MaxTx rows of the pool, or one row of the wider pool
CsvFiles == SeqsUpTo(RowPool, MaxTx) \cup {<<r>> : r \in NameRows}

UnmaskTrust == 50

\* a choice that takes the unmasked vendor of every obscured result
VendorNameOfObscured(transaction, unmaskedResult) ==
  IF unmaskedResult.isObscured
  THEN unmaskedResult.extractedVendor
  ELSE extractVendorName(transaction)

\* vendorName: the unmasked vendor when the result is obscured and trusted
VendorNameOf(transaction, unmaskedResult) ==
  IF unmaskedResult.isObscured /\ unmaskedResult.confidence > UnmaskTrust
  THEN unmaskedResult.extractedVendor
  ELSE extractVendorName(transaction)

DerivedFrom(unmaskedResult, vendorName) ==
  [unmaskedResult |-> unmaskedResult,
   vendorName |-> vendorName,
   normalizedName |-> normalizeVendorName(vendorName),
   displayName |-> getDisplayName(vendorName)]

\* what processTransactions derives from one transaction before it touches
\* the profiles: the unmask result, the vendor name, the key and the display name
Derived(transaction) ==
  DerivedFrom(unmaskVendor(transaction.description, transaction.extendedDetails,
                           transaction.appearsOnStatementAs),
              VendorNameOf(transaction,
                           unmaskVendor(transaction.description, transaction.extendedDetails,
                                        transaction.appearsOnStatementAs)))

\* files of one vendor whose rows are apart by the gaps of a list, in days
Gaps == {0, 1, 2, 4, 7, 10, 14, 30, 90, 365}

MaxGaps == 2

RECURSIVE DaysFrom(_, _)
DaysFrom(day, gaps) ==
  IF gaps = <<>> THEN <<day>> ELSE <<day>> \o DaysFrom(day + Head(gaps), Tail(gaps))

DayLists == {DaysFrom(0, gaps) : gaps \in SeqsUpTo(Gaps, MaxGaps) \ {<<>>}}

\* the rows in date order, and latest first
DatedFiles ==
  {[i \in 1..Len(days) |-> Row("ACME TOOLS", days[i], -1599)] : days \in DayLists}
  \cup {[i \in 1..Len(days) |-> Row("ACME TOOLS", days[Len(days) + 1 - i], -1599)] :
          days \in DayLists}

\* files of one vendor a month apart with the amounts of a list, and one
\* charge of a vendor with a blacklisted word in its name
Amounts == {1000, 10000, 99900}

MaxAmounts == 3

AmountFiles ==
  {[i \in 1..Len(amounts) |-> Row("ACME TOOLS", 30 * (i - 1), -amounts[i])] :
     amounts \in SeqsUpTo(Amounts, MaxAmounts) \ {<<>>}}
  \cup {<<Row("URGENT CARE", 0, -99900)>>}

DatedRows == UNION {{file[i] : i \in 1..Len(file)} : file \in DatedFiles \cup AmountFiles}

\* Derived, tabulated over the transactions of the pool
DerivedOf ==
  [tr \in {parseTransaction(r) : r \in RowPool \cup NameRows \cup DatedRows} |-> Derived(tr)]

\* parseTransaction, tabulated over the rows of the pool
ParsedOf == [r \in RowPool \cup NameRows \cup DatedRows |-> parseTransaction(r)]

\* a map that never finds the profile of a key
ProfileIndexNever(profiles, normalizedName) == 0

\* the position of the profile of a key in the map, 0 when it has none
ProfileIndex(profiles, normalizedName) ==
  LET hits == {i \in 1..Len(profiles) : profiles[i].normalizedName = normalizedName}
  IN  IF hits = {} THEN 0 ELSE CHOOSE i \in hits : TRUE

\* parseAmexCsv up to the start of processTransactions
LoadCsv ==
  \E rows \in CsvFiles :
    /\ pc = "idle"
    /\ transactions' = [i \in 1..Len(rows) |-> ParsedOf[rows[i]]]
    /\ pc' = IF rows = <<>> THEN "done" ELSE "aggregate"
    /\ idx' = 1
    /\ runs' = 1
    /\ UNCHANGED <<called, call, result, vendors, serverVars, reportVars>>

\* an update that takes the processor of the latest unmask result
UpsertLatestProcessor(profiles, at, transaction, d) ==
  IF at = 0
  THEN Append(profiles,
              AddTransaction(NewProfile(d.vendorName, d.normalizedName, d.displayName,
                                        transaction, d.unmaskedResult),
                             transaction))
  ELSE [profiles EXCEPT
          ![at] = [AddTransaction(@, transaction) EXCEPT
                     !.metadata.processor = IF d.unmaskedResult.processor # "Direct"
                                            THEN d.unmaskedResult.processor ELSE ""]]

\* this.vendors.set on the first sight of a key (at = 0), then the update
Upsert(profiles, at, transaction, d) ==
  IF at = 0
  THEN Append(profiles,
              AddTransaction(NewProfile(d.vendorName, d.normalizedName, d.displayName,
                                        transaction, d.unmaskedResult),
                             transaction))
  ELSE [profiles EXCEPT ![at] = AddTransaction(@, transaction)]

\* one pass of the loop over this.transactions
AggregateStep ==
  /\ pc = "aggregate"
  /\ \E d \in {DerivedOf[transactions[idx]]} :
       /\ vendors' = Upsert(vendors, ProfileIndex(vendors, d.normalizedName),
                            transactions[idx], d)
       /\ called' = TRUE
       /\ call' = [description |-> transactions[idx].description,
                   extendedDetails |-> transactions[idx].extendedDetails,
                   statementDescription |-> transactions[idx].appearsOnStatementAs]
       /\ result' = d.unmaskedResult
  /\ IF idx = Len(transactions)
     THEN pc' = "analyze" /\ idx' = 1
     ELSE pc' = pc /\ idx' = idx + 1
  /\ UNCHANGED <<transactions, runs, serverVars, reportVars>>

\* one pass of the loop over this.vendors.values()
AnalyzeStep ==
  /\ pc = "analyze"
  /\ vendors' = [vendors EXCEPT ![idx] = AnalyzeProfile(@)]
  /\ IF idx = Len(vendors)
     THEN pc' = "done" /\ idx' = 0
     ELSE pc' = pc /\ idx' = idx + 1
  /\ UNCHANGED <<called, call, result, transactions, runs, serverVars, reportVars>>

Next == LoadCsv \/ AggregateStep \/ AnalyzeStep

Spec == Init /\ [][Next]_vars

\* ------------------------------------------------------------------------
\* A second parseAmexCsv call on the same analyzer
\* ------------------------------------------------------------------------

MaxRuns == 2

\* parseAmexCsv of the same file again: this.transactions is assigned the
\* same rows, this.vendors is left as the previous run filled it
Reload ==
  /\ pc = "done"
  /\ runs >= 1
  /\ runs < MaxRuns
  /\ runs' = runs + 1
  /\ pc' = IF transactions = <<>> THEN "done" ELSE "aggregate"
  /\ idx' = 1
  /\ UNCHANGED <<called, call, result, transactions, vendors, serverVars, reportVars>>

SpecRerun == Init /\ [][Next \/ Reload]_vars

\* parseAmexCsv of a file of one vendor with given gaps between its rows, or
\* with given amounts
LoadDated ==
  \E rows \in DatedFiles \cup AmountFiles :
    /\ pc = "idle"
    /\ transactions' = [i \in 1..Len(rows) |-> ParsedOf[rows[i]]]
    /\ pc' = "aggregate"
    /\ idx' = 1
    /\ runs' = 1
    /\ UNCHANGED <<called, call, result, vendors, serverVars, reportVars>>

SpecDated == Init /\ [][LoadDated \/ AggregateStep \/ AnalyzeStep]_vars

\* ------------------------------------------------------------------------
\* The server: tool requests sharing the analyzer field
\* ------------------------------------------------------------------------

\* The CallTool handler up to the await in the tool's method: the field is
\* assigned a new analyzer, parseAmexCsv is called on it and suspends at
\* await fs.readFile
CallTool(r, csvPath) ==
  /\ requests[r].pc = "idle"
  /\ analyzers' = Append(analyzers, NoFile)
  /\ analyzer' = Len(analyzers) + 1
  /\ requests' = [requests EXCEPT ![r] = [pc |-> "reading", csvPath |-> csvPath,
                                          target |-> Len(analyzers) + 1,
                                          analyzed |-> 0, held |-> NoFile]]
  /\ UNCHANGED <<called, call, result, transactions, vendors, pc, idx, runs, reportVars>>

\* The read completes: the analyzer parseAmexCsv was called on is filled, the
\* promise resolves and the tool's method goes on with this.analyzer.analyze(),
\* reading the field again. No other request starts in between: the
\* continuations are microtasks of the same turn of the event loop.
AnalyzeAfterLoad(r) ==
  /\ requests[r].pc = "reading"
  /\ analyzers' = [analyzers EXCEPT ![requests[r].target] = requests[r].csvPath]
  /\ requests' = [requests EXCEPT ![r].pc = "done",
                                  ![r].analyzed = analyzer,
                                  ![r].held = analyzers'[analyzer]]
  /\ UNCHANGED <<called, call, result, transactions, vendors, pc, idx, runs, analyzer, reportVars>>

SpecServer ==
  Init /\ [][\/ \E r \in Requests, csvPath \in CsvPaths : CallTool(r, csvPath)
            \/ \E r \in Requests : AnalyzeAfterLoad(r)]_vars

\* ------------------------------------------------------------------------
\* Properties of the unmasker
\* ------------------------------------------------------------------------

MinOf(set) == CHOOSE a \in set : \A b \in set : a <= b

\* the table entries with at least one pattern matching the text
MatchingEntries(text) == {i \in 1..Len(processorPatterns) : ProcessorMatches(i, text)}

TableOrder ==
  <<"PayPal", "Square", "Stripe", "Venmo", "CashApp", "Zelle", "Toast", "Clover",
    "Apple Pay", "Google Pay">>

BaseConfidence ==
  [n \in {TableOrder[i] : i \in 1..Len(TableOrder)} |->
     CASE n = "PayPal" -> 90 [] n = "Square" -> 90 [] n = "Stripe" -> 85
       [] n = "Venmo" -> 80 [] n = "CashApp" -> 85 [] n = "Zelle" -> 80
       [] n = "Toast" -> 90 [] n = "Clover" -> 85 [] n = "Apple Pay" -> 75
       [] n = "Google Pay" -> 80]

AllDigits(text) == text # <<>> /\ \A i \in 1..Len(text) : text[i] \in Digits

CallContext == AllDescriptions(call.description, call.extendedDetails, call.statementDescription)

\* the matched entry of the latest call (only used when one matches)
CallEntry == processorPatterns[MinOf(MatchingEntries(call.description))]

ProcessorCall == called /\ MatchingEntries(call.description) # {}

\* the extracted text of the latest call after cleanup and normalization
CallCleaned == cleanVendorName(Extraction(call.description, CallEntry, CallContext))

\* C1: a description matching a processor signature is obscured and gets the
\* name of the first table entry with a matching pattern, whatever the
\* extended details and the statement description contain
C1_FirstMatchWins ==
  ProcessorCall =>
    /\ result.isObscured
    /\ result.processor = TableOrder[MinOf(MatchingEntries(call.description))]

\* two entries match the description and the context matches an earlier one
C1_Witness ==
  /\ ProcessorCall
  /\ Cardinality(MatchingEntries(call.description)) >= 2
  /\ MatchingEntries(call.extendedDetails) # {}
  /\ MinOf(MatchingEntries(call.extendedDetails)) < MinOf(MatchingEntries(call.description))

\* C2: a description matching no processor signature and no suspicious
\* descriptor is Direct, not obscured, confidence 1.0, no manual review
C2_DirectPassThrough ==
  (called /\ MatchingEntries(call.description) = {}
          /\ ~AnyTest(suspiciousDescriptors, call.description)) =>
    /\ result.processor = "Direct"
    /\ ~result.isObscured
    /\ result.confidence = 100
    /\ ~result.needsManualReview

\* a direct description whose context carries a processor signature
C2_Witness ==
  /\ called /\ result.processor = "Direct"
  /\ call.description # <<>>
  /\ MatchingEntries(CallContext) # {}

\* the mapping keys the normalized text matches exactly or as a substring
MatchingKeys(text) ==
  LET upper == ToUpper(text)
  IN  {i \in 1..Len(vendorMappings) :
         Includes(upper, MappingKey(i)) \/ Includes(MappingKey(i), upper)}

\* C3: when the cleaned extraction matches a key of the canonical map, the
\* extracted vendor is a matched key's canonical name (the exact key's when
\* there is one) with the processor's base confidence; PAYPAL *GRUBHUB gives
\* PayPal, a Grubhub vendor and 0.9
C3_CanonicalSubstitution ==
  ProcessorCall =>
    LET cleaned == CallCleaned
        keys == MatchingKeys(cleaned)
    IN  /\ keys # {} =>
             /\ \E i \in keys : result.extractedVendor = MappingName(i)
             /\ \A i \in keys :
                  MappingKey(i) = ToUpper(cleaned) => result.extractedVendor = MappingName(i)
             /\ result.confidence = CallEntry.confidence
             /\ result.isObscured
        /\ call.description = Str("PAYPAL *GRUBHUB") =>
             /\ result.processor = "PayPal"
             /\ Includes(result.extractedVendor, Str("Grubhub"))
             /\ result.confidence = 90
             /\ result.isObscured

\* a non-empty extraction that matches a key only as a substring
C3_Witness ==
  /\ ProcessorCall
  /\ LET cleaned == CallCleaned
         keys == MatchingKeys(cleaned)
     IN  /\ cleaned # <<>>
         /\ keys # {}
         /\ \A i \in keys : MappingKey(i) # ToUpper(cleaned)
         /\ result.extractedVendor = MappingName(MinOf(keys))

CanonicalNames == {MappingName(i) : i \in 1..Len(vendorMappings)}

\* the text after the first delimiter is a run of digits
DigitsAfterDelimiter(text, delimiter) ==
  LET parts == SplitChar(text, delimiter)
  IN  Len(parts) >= 2 /\ AllDigits(Trim(parts[2]))

\* C4: a delimiter processor whose text after the delimiter is all digits
\* needs manual review, has a confidence below the base confidence and no
\* canonical vendor name
C4_DigitsForceReview ==
  (ProcessorCall /\ CallEntry.method = "delimiter"
                 /\ DigitsAfterDelimiter(call.description, CallEntry.delimiter)) =>
    /\ result.needsManualReview
    /\ result.confidence < CallEntry.confidence
    /\ result.extractedVendor \notin CanonicalNames

\* C5: an empty extraction gives the literal Unknown Vendor and confidence 0.1
C5_EmptyIsUnknownVendor ==
  (ProcessorCall /\ CallCleaned = <<>>) =>
    /\ result.extractedVendor = UnknownVendor
    /\ result.confidence = 10

\* C6: a non-empty, non-degenerate extraction (three characters or more, not
\* all digits) has the base confidence of its processor
C6_BaseConfidence ==
  ProcessorCall =>
    LET cleaned == CallCleaned
    IN  (Len(cleaned) >= 3 /\ ~AllDigits(cleaned)) =>
          result.confidence = BaseConfidence[result.processor]

\* a good extraction behind a processor whose base confidence forces review
C6_Witness ==
  /\ ProcessorCall
  /\ result.needsManualReview
  /\ result.confidence = 75
  /\ LET cleaned == CallCleaned IN Len(cleaned) >= 3 /\ ~AllDigits(cleaned)

GenericWords ==
  { <<"PAYMENT">>, <<"TRANSFER">>, <<"PURCHASE">>, <<"TRANSACTION">>, <<"CHARGE">>,
    <<"DEBIT">>, <<"POS", "PURCHASE">>, <<"ONLINE", "PAYMENT">>, <<"WEB", "PAYMENT">>,
    <<"RECURRING">> }

\* the text is one of the generic words or phrases, in any letter case
IsGenericWord(text) ==
  \E g \in GenericWords :
    SplitRx(ToUpper(text), Rx(Plus(RxS))) = [i \in 1..Len(g) |-> Str(g[i])]

\* two to four upper-case letters followed by digits, like AB123
IsLetterDigitCode(text) ==
  \E k \in 2..4 :
    /\ Len(text) > k
    /\ \A i \in 1..k : text[i] \in Uppers
    /\ AllDigits(SubSeq(text, k + 1, Len(text)))

\* two to four upper-case letters and nothing else
IsLetterCode(text) ==
  Len(text) \in 2..4 /\ \A i \in 1..Len(text) : text[i] \in Uppers

IsUnknownResult ==
  /\ result.processor = "Unknown"
  /\ result.confidence = 30
  /\ result.isObscured
  /\ result.needsManualReview

\* C7 as stated: a bare number, a 2-4 letter code or a generic word that
\* matches no processor is Unknown with confidence 0.3, obscured, to review
C7_Original ==
  (called /\ MatchingEntries(call.description) = {}
          /\ (\/ AllDigits(call.description)
              \/ IsLetterCode(call.description)
              \/ IsGenericWord(call.description))) =>
    IsUnknownResult

\* C7 amended: a bare number, 2-4 upper-case letters followed by digits, or a
\* generic word or phrase that matches no processor is Unknown with
\* confidence 0.3, obscured, to review
C7_SuspiciousIsUnknown ==
  (called /\ MatchingEntries(call.description) = {}
          /\ (\/ AllDigits(call.description)
              \/ IsLetterDigitCode(call.description)
              \/ IsGenericWord(call.description))) =>
    IsUnknownResult

\* a lower-case generic word classified Unknown
C7_Witness ==
  /\ called /\ IsUnknownResult
  /\ IsGenericWord(call.description)
  /\ call.description # ToUpper(call.description)

\* ------------------------------------------------------------------------
\* Properties of a pipeline run
\* ------------------------------------------------------------------------

Done == pc = "done"

Profiles == {vendors[i] : i \in 1..Len(vendors)}

InUnit(x) == x >= 0 /\ x <= 100

\* C8: after a run every unmask confidence, every recurrence confidence and
\* every final anomaly score lies in [0,1], also for fraud scores above 100
C8_ScoresInUnitInterval ==
  Done =>
    /\ InUnit(result.confidence)
    /\ \A v \in Profiles :
         /\ InUnit(v.metadata.unmaskingConfidence)
         /\ InUnit(v.recurringPattern.confidence)
         /\ InUnit(v.metadata.anomalyScore)

\* a finished run with a profile whose fraud score exceeds 100
C8_Witness ==
  Done /\ \E v \in Profiles : v.fraudScore > 100 /\ v.metadata.anomalyScore = 100

\* C9: after a run on a fresh analyzer a profile with fewer than two
\* transactions has no recurrence pattern and is not recurring
C9_SingleTransactionNotRecurring ==
  Done =>
    \A v \in Profiles :
      v.transactionCount < 2 => (v.recurringPattern = NoPattern /\ ~v.isRecurring)

\* a finished run with a one-transaction profile next to a recurring one
C9_Witness ==
  /\ Done
  /\ \E v \in Profiles : v.transactionCount = 1
  /\ \E v \in Profiles : v.isRecurring

\* all transactions of the profile have one amount and the day gaps between
\* them, in date order, have a mean in [28,32] and a deviation below 5
MonthlySameAmount(v) ==
  LET gaps == Intervals(SortByDate(v.transactions))
  IN  /\ Len(v.transactions) >= 2
      /\ \A i, j \in 1..Len(v.transactions) :
           v.transactions[i].amount = v.transactions[j].amount
      /\ MeanWithin(gaps, 28, 32)
      /\ StdDevBelow(gaps, 5)

\* C10: such a profile is monthly with pattern confidence >= 0.9 and is
\* flagged as a subscription
C10_MonthlySubscription ==
  Done =>
    \A v \in Profiles :
      MonthlySameAmount(v) =>
        /\ v.recurringPattern.frequency = "monthly"
        /\ v.recurringPattern.confidence >= 90
        /\ v.metadata.isSubscription

\* three monthly charges of one amount under a name without any keyword
C10_Witness ==
  /\ Done
  /\ \E v \in Profiles :
       /\ MonthlySameAmount(v)
       /\ Len(v.transactions) >= 3
       /\ ~ContainsKeyword(ToLower(v.name), subscriptionKeywords)
       /\ \A i \in 1..Len(v.transactions) :
            ~ContainsKeyword(ToLower(v.transactions[i].description), subscriptionKeywords)
       /\ v.metadata.isSubscription

\* ------------------------------------------------------------------------
\* The report of obscured vendors
\* ------------------------------------------------------------------------

MaxReview == 50

MaxExamples == 3

identifyPattern(text) ==
  IF RxTest(Rx(Cat(<<Bol, Plus(Set(Digits)), Eol>>)), text) THEN "Numeric only"
  ELSE IF RxTest(Rx(Cat(<<Bol, Rep(Set(Uppers), 2, 5), Eol>>)), text) THEN "Uppercase abbreviation"
  ELSE IF Len(text) < 3 THEN "Too short"
  ELSE IF AnyTest(suspiciousDescriptors, text) THEN "Generic descriptor"
  ELSE "Other suspicious"

\* byProcessor: the processors seen, each with the number of its vendors
CountByProcessor(obscured) ==
  [p \in {obscured[i].processor : i \in 1..Len(obscured)} |->
     Cardinality({i \in 1..Len(obscured) : obscured[i].processor = p})]

\* the keys of patternCounts in insertion order, patterns[i] being the pattern
\* of the i-th vendor needing review: each pattern at its first occurrence
PatternKeys(patterns) ==
  [m \in 1..Len(SelectSeq([i \in 1..Len(patterns) |-> i],
                          LAMBDA i : \A j \in 1..(i - 1) : patterns[j] # patterns[i])) |->
     patterns[SelectSeq([i \in 1..Len(patterns) |-> i],
                        LAMBDA i : \A j \in 1..(i - 1) : patterns[j] # patterns[i])[m]]]

\* the value of patternCounts at a key: the descriptions pushed, in order
ExamplesOf(needingReview, patterns, key) ==
  [m \in 1..Len(SelectSeq([i \in 1..Len(patterns) |-> i], LAMBDA i : patterns[i] = key)) |->
     needingReview[SelectSeq([i \in 1..Len(patterns) |-> i],
                             LAMBDA i : patterns[i] = key)[m]].originalDescription]

\* an entry that counts the examples it keeps
ClusterCountsKept(pattern, examples) ==
  [pattern |-> pattern, count |-> Min2(MaxExamples, Len(examples)),
   examples |-> SubSeq(examples, 1, Min2(MaxExamples, Len(examples)))]

\* one entry of patternCounts mapped to {pattern, count, examples}
Cluster(pattern, examples) ==
  [pattern |-> pattern, count |-> Len(examples),
   examples |-> SubSeq(examples, 1, Min2(MaxExamples, Len(examples)))]

\* Array.prototype.sort with (a, b) => b.count - a.count (stable)
RECURSIVE InsertByCount(_, _)
InsertByCount(sorted, x) ==
  IF sorted = <<>> THEN <<x>>
  ELSE IF sorted[Len(sorted)].count >= x.count THEN Append(sorted, x)
  ELSE Append(InsertByCount(SubSeq(sorted, 1, Len(sorted) - 1), x), sorted[Len(sorted)])

RECURSIVE SortByCount(_)
SortByCount(clusters) ==
  IF clusters = <<>> THEN <<>>
  ELSE InsertByCount(SortByCount(SubSeq(clusters, 1, Len(clusters) - 1)), clusters[Len(clusters)])

\* the report for the obscured vendors and those of them that need review
ReportOf(obscured, needingReview, patterns) ==
  [totalObscured |-> Len(obscured),
   byProcessor |-> CountByProcessor(obscured),
   needingReview |-> SubSeq(needingReview, 1, Min2(MaxReview, Len(needingReview))),
   suspiciousPatterns |->
     SortByCount([j \in 1..Len(PatternKeys(patterns)) |->
                    Cluster(PatternKeys(patterns)[j],
                            ExamplesOf(needingReview, patterns, PatternKeys(patterns)[j]))])]

generateObscuredVendorReport(vendorList) ==
  ReportOf(SelectSeq(vendorList, LAMBDA v : v.metadata.isObscured),
           SelectSeq(vendorList, LAMBDA v : v.metadata.isObscured /\ v.metadata.needsManualReview),
           [i \in 1..Len(SelectSeq(vendorList, LAMBDA v : v.metadata.isObscured
                                                          /\ v.metadata.needsManualReview)) |->
              identifyPattern(SelectSeq(vendorList,
                                LAMBDA v : v.metadata.isObscured
                                           /\ v.metadata.needsManualReview)[i].extractedVendor)])

\* the lists of unmasked vendors the report is generated for: runs of equal
\* vendors, one after the other
Unmasked(description, processor, vendorName, isObscured, needsManualReview) ==
  [originalDescription |-> Str(description), processor |-> processor,
   extractedVendor |-> Str(vendorName),
   metadata |-> [isObscured |-> isObscured, needsManualReview |-> needsManualReview]]

UnmaskedPool ==
  { Unmasked("PAYPAL *GRUBHUB", "PayPal", "Grubhub Food Delivery", TRUE, FALSE),
    Unmasked("SQ *8472639", "Square", "8472639", TRUE, TRUE),
    Unmasked("PAYMENT", "Unknown", "Payment", TRUE, TRUE),
    Unmasked("PAYPAL *AB", "PayPal", "AB", TRUE, TRUE),
    Unmasked("TST* X", "Toast", "X", TRUE, TRUE),
    Unmasked("STRIPE *JOES", "Stripe", "Joes", TRUE, TRUE),
    Unmasked("STARBUCKS", "Direct", "STARBUCKS", FALSE, FALSE) }

RunLengths == {1, 51}

MaxRunsOfVendors == 2

RunOf(v, n) == [i \in 1..n |-> v]

RECURSIVE Flatten(_)
Flatten(runsOfVendors) ==
  IF runsOfVendors = <<>> THEN <<>> ELSE Head(runsOfVendors) \o Flatten(Tail(runsOfVendors))

VendorLists ==
  {Flatten(rs) : rs \in SeqsUpTo({RunOf(v, n) : v \in UnmaskedPool, n \in RunLengths},
                                 MaxRunsOfVendors)}

GenerateReport ==
  \E vendorList \in VendorLists :
    /\ unmaskedVendors = <<>>
    /\ unmaskedVendors' = vendorList
    /\ report' = generateObscuredVendorReport(vendorList)
    /\ UNCHANGED <<called, call, result, transactions, vendors, pc, idx, runs, serverVars>>

SpecReport == Init /\ [][GenerateReport]_vars

\* ------------------------------------------------------------------------
\* Properties of the analyzers
\* ------------------------------------------------------------------------

\* two transactions of the profile on one day, each of the amount
HasSameDayPair(v, amount) ==
  \E i, j \in 1..Len(v.transactions) :
    /\ i # j
    /\ v.transactions[i].date = v.transactions[j].date
    /\ v.transactions[i].amount = amount
    /\ v.transactions[j].amount = amount

\* C11: after a run a profile that contains two $999.00 transactions on one
\* day has a fraud score of at least 70 and is flagged fraudulent
C11_SameDayPairIsFraud ==
  Done =>
    \A v \in Profiles :
      HasSameDayPair(v, 99900) => (v.fraudScore >= 70 /\ v.metadata.isFraudulent)

\* the length of the run of digits a text ends with
DigitRun(s) ==
  CHOOSE k \in 0..Len(s) :
    /\ \A i \in (Len(s) - k + 1)..Len(s) : s[i] \in Digits
    /\ (k = Len(s) \/ s[Len(s) - k] \notin Digits)

\* the length of the run of spaces that ends at position p
SpaceRun(s, p) ==
  CHOOSE k \in 0..p :
    /\ \A i \in (p - k + 1)..p : s[i] = " "
    /\ (k = p \/ s[p - k] # " ")

\* the length of a trailing store number " #<digits>", 0 when there is none
StoreSuffixLen(s) ==
  IF /\ DigitRun(s) >= 1
     /\ Len(s) - DigitRun(s) >= 2
     /\ s[Len(s) - DigitRun(s)] = "#"
     /\ s[Len(s) - DigitRun(s) - 1] = " "
  THEN DigitRun(s) + 1 + SpaceRun(s, Len(s) - DigitRun(s) - 1)
  ELSE 0

\* the length of a trailing "*<digits>", 0 when there is none
StarSuffixLen(s) ==
  IF DigitRun(s) >= 1 /\ Len(s) - DigitRun(s) >= 1 /\ s[Len(s) - DigitRun(s)] = "*"
  THEN DigitRun(s) + 1
  ELSE 0

\* the length of a trailing date " dd/dd", 0 when there is none
DateSuffixLen(s) ==
  IF /\ Len(s) >= 6
     /\ s[Len(s) - 5] = " "
     /\ s[Len(s) - 4] \in Digits /\ s[Len(s) - 3] \in Digits
     /\ s[Len(s) - 2] = "/"
     /\ s[Len(s) - 1] \in Digits /\ s[Len(s)] \in Digits
  THEN 5 + SpaceRun(s, Len(s) - 5)
  ELSE 0

DropLast(s, n) == SubSeq(s, 1, Len(s) - n)

EndsWith(s, suffix) ==
  Len(s) >= Len(suffix) /\ SubSeq(s, Len(s) - Len(suffix) + 1, Len(s)) = suffix

\* the description matches no processor signature and no suspicious descriptor
PlainDescription(description) ==
  MatchingEntries(description) = {} /\ ~AnyTest(suspiciousDescriptors, description)

RECURSIVE AggregateFrom(_, _, _)
AggregateFrom(profiles, txs, k) ==
  IF k > Len(txs) THEN profiles
  ELSE AggregateFrom(Upsert(profiles, ProfileIndex(profiles, DerivedOf[txs[k]].normalizedName),
                            txs[k], DerivedOf[txs[k]]),
                     txs, k + 1)

AnalyzeAll(profiles) == [i \in 1..Len(profiles) |-> AnalyzeProfile(profiles[i])]

\* the profiles of one run on a fresh analyzer
FreshRun(txs) == AnalyzeAll(AggregateFrom(<<>>, txs, 1))

\* C13: whenever a run has finished, the first on an analyzer or a later one
\* on the same analyzer and the same transactions, the profiles are those of
\* a run on a fresh analyzer
C13_RerunGivesSameProfiles ==
  (Done /\ runs >= 1) => vendors = FreshRun(transactions)

\* C14: a request that has analysed, while another request for a different
\* file is or was in progress, analysed the analyzer created for it, and that
\* analyzer held the request's own file
C14_AnalyzesOwnAnalyzer ==
  \A r \in Requests : \A o \in Requests \ {r} :
    (/\ requests[r].pc = "done"
     /\ requests[o].pc # "idle"
     /\ requests[o].csvPath # requests[r].csvPath)
    => (/\ requests[r].analyzed = requests[r].target
        /\ requests[r].held = requests[r].csvPath)

AmountsOf(v) == [i \in 1..Len(v.transactions) |-> v.transactions[i].amount]

DatesOf(v) == {v.transactions[i].date : i \in 1..Len(v.transactions)}

\* C15: after a run on a fresh analyzer every profile counts its transactions,
\* at least one; totalSpent is the sum of their amounts and averageAmount the
\* quotient totalSpent / transactionCount; minAmount and maxAmount, firstSeen
\* and lastSeen are the least and greatest member amount and date
C15_ProfileTotals ==
  Done => \A v \in Profiles :
    /\ v.transactionCount = Len(v.transactions)
    /\ v.transactionCount >= 1
    /\ v.totalSpent = SumSeq(AmountsOf(v))
    /\ v.averageAmount = Ratio(v.totalSpent, v.transactionCount)
    /\ \E i \in 1..Len(v.transactions) : v.transactions[i].amount = v.minAmount
    /\ \E i \in 1..Len(v.transactions) : v.transactions[i].amount = v.maxAmount
    /\ \A i \in 1..Len(v.transactions) :
         v.minAmount <= v.transactions[i].amount /\ v.transactions[i].amount <= v.maxAmount
    /\ v.firstSeen \in DatesOf(v)
    /\ v.lastSeen \in DatesOf(v)
    /\ \A d \in DatesOf(v) : v.firstSeen <= d /\ d <= v.lastSeen

\* a profile of three transactions read latest first, with different amounts
C15_Witness ==
  /\ Done
  /\ Len(transactions) >= 3
  /\ transactions[1].date > transactions[2].date
  /\ transactions[2].date > transactions[3].date
  /\ \E v \in Profiles :
       /\ v.transactionCount = 3
       /\ v.minAmount < v.maxAmount
       /\ v.firstSeen = transactions[3].date
       /\ v.lastSeen = transactions[1].date

\* the most recent transaction of a profile by date
LatestOf(v) == SortByDate(v.transactions)[Len(v.transactions)]

\* C16: a profile whose name, or whose latest transaction's description,
\* contains a subscription keyword is flagged as a subscription
C16_KeywordInLatestFlags ==
  Done => \A v \in Profiles :
    (\/ ContainsKeyword(ToLower(v.name), subscriptionKeywords)
     \/ ContainsKeyword(ToLower(LatestOf(v).description), subscriptionKeywords))
    => v.metadata.isSubscription

\* neither the name nor any transaction description contains a keyword
KeywordFree(v) ==
  /\ ~ContainsKeyword(ToLower(v.name), subscriptionKeywords)
  /\ \A i \in 1..Len(v.transactions) :
       ~ContainsKeyword(ToLower(v.transactions[i].description), subscriptionKeywords)

DistinctAmounts(v) == {v.transactions[i].amount : i \in 1..Len(v.transactions)}

ConsistentAmounts(v) ==
  \/ Cardinality(DistinctAmounts(v)) = 1
  \/ (Cardinality(DistinctAmounts(v)) <= 2 /\ v.transactionCount > 3)

\* C17: a keyword-free profile is flagged exactly when it is recurring with
\* confidence above 0.8, monthly, quarterly or annual, with consistent amounts;
\* a daily, weekly or biweekly one is never flagged and a quarterly one with
\* identical amounts is flagged
C17_PatternPath ==
  Done => \A v \in Profiles : KeywordFree(v) =>
    /\ v.metadata.isSubscription <=>
         (/\ v.isRecurring
          /\ v.recurringPattern.confidence > LikelyRecurringThreshold
          /\ v.recurringPattern.frequency \in {"monthly", "quarterly", "annual"}
          /\ ConsistentAmounts(v))
    /\ (v.isRecurring /\ v.recurringPattern.frequency \in {"daily", "weekly", "biweekly"})
         => ~v.metadata.isSubscription
    /\ (/\ v.isRecurring
        /\ v.recurringPattern.frequency = "quarterly"
        /\ Cardinality(DistinctAmounts(v)) = 1)
         => v.metadata.isSubscription

\* ------------------------------------------------------------------------
\* Properties of the report
\* ------------------------------------------------------------------------

RECURSIVE SumOver(_, _)
SumOver(f, keys) ==
  IF keys = {} THEN 0
  ELSE LET k == CHOOSE x \in keys : TRUE
       IN  f[k] + SumOver(f, keys \ {k})

\* the positions of the vendors of the argument that are obscured and need review
ReviewItems ==
  {i \in 1..Len(unmaskedVendors) :
     unmaskedVendors[i].metadata.isObscured /\ unmaskedVendors[i].metadata.needsManualReview}

\* the pattern of each vendor of the pool
PatternOf == [v \in UnmaskedPool |-> identifyPattern(v.extractedVendor)]

ItemsOfPattern(pattern) == {i \in ReviewItems : PatternOf[unmaskedVendors[i]] = pattern}

\* C18: a report lists at most 50 vendors needing review; every cluster has at
\* most 3 examples and counts all review items of its pattern; the clusters
\* are in descending order of count; totalObscured is the sum of byProcessor
C18_ReportShape ==
  /\ Len(report.needingReview) <= MaxReview
  /\ \A j \in 1..Len(report.suspiciousPatterns) :
       /\ Len(report.suspiciousPatterns[j].examples) <= MaxExamples
       /\ report.suspiciousPatterns[j].count =
            Cardinality(ItemsOfPattern(report.suspiciousPatterns[j].pattern))
  /\ \A i \in 1..Len(report.suspiciousPatterns) : \A j \in 1..Len(report.suspiciousPatterns) :
       i < j => report.suspiciousPatterns[i].count >= report.suspiciousPatterns[j].count
  /\ report.totalObscured = SumOver(report.byProcessor, DOMAIN report.byProcessor)

\* more than 50 vendors need review, a cluster has more than 3 members, the
\* sort moved a cluster that was inserted later to the front, and two
\* processors are counted
C18_Witness ==
  /\ Cardinality(ReviewItems) > MaxReview
  /\ Len(report.needingReview) = MaxReview
  /\ Len(report.suspiciousPatterns) = 2
  /\ report.suspiciousPatterns[1].count > MaxExamples
  /\ Len(report.suspiciousPatterns[1].examples) = MaxExamples
  /\ report.suspiciousPatterns[1].count > report.suspiciousPatterns[2].count
  /\ PatternOf[unmaskedVendors[1]] = report.suspiciousPatterns[2].pattern
  /\ Cardinality(DOMAIN report.byProcessor) = 2

\* the field the name is taken from: the first non-empty one of statement
\* description, raw description and extended details
FirstField(tr) ==
  IF tr.appearsOnStatementAs # <<>> THEN tr.appearsOnStatementAs
  ELSE IF tr.description # <<>> THEN tr.description
  ELSE tr.extendedDetails

\* a text without its trailing "*<digits>", then without its trailing date,
\* then without its trailing store number
WithoutReference(s) ==
  LET a == DropLast(s, StarSuffixLen(s))
      b == DropLast(a, DateSuffixLen(a))
  IN  Trim(DropLast(b, StoreSuffixLen(b)))

ExpectedName(tr, unmasked) ==
  IF unmasked.isObscured /\ unmasked.confidence > UnmaskTrust THEN unmasked.extractedVendor
  ELSE IF FirstField(tr) = <<>> THEN Str("Unknown Vendor")
  ELSE WithoutReference(FirstField(tr))

\* C19: the name of a profile made of one transaction is the unmasked vendor
\* when the unmask result is obscured with confidence above 0.5, and otherwise
\* the first non-empty field among statement description, description and
\* extended details without its trailing reference, or "Unknown Vendor"
C19_VendorNameChoice ==
  \A v \in Profiles :
    Len(v.transactions) = 1 =>
      v.name = ExpectedName(v.transactions[1], DerivedOf[v.transactions[1]].unmaskedResult)

\* a finished run on one PAYMENT row: the result is Unknown at 0.3, and the
\* name is the statement description SHOP 9 01/02*77 without "*77" and the date
C19_Witness ==
  /\ Done
  /\ Len(vendors) = 1
  /\ Len(vendors[1].transactions) = 1
  /\ DerivedOf[vendors[1].transactions[1]].unmaskedResult.isObscured
  /\ DerivedOf[vendors[1].transactions[1]].unmaskedResult.confidence <= UnmaskTrust
  /\ vendors[1].transactions[1].appearsOnStatementAs = Str("SHOP 9 01/02*77")
  /\ vendors[1].name = Str("SHOP 9")

\* ------------------------------------------------------------------------
\* Properties of the recurrence classification
\* ------------------------------------------------------------------------

\* bucket, least and greatest mean gap, ceiling of the deviation, confidence
Buckets ==
  << <<"daily", 1, 2, 1, 90>>, <<"weekly", 6, 8, 2, 85>>, <<"biweekly", 13, 15, 3, 85>>,
     <<"monthly", 28, 32, 5, 90>>, <<"quarterly", 85, 95, 10, 80>>,
     <<"annual", 350, 380, 30, 85>> >>

\* the whole-day gaps between consecutive transactions
GapsOf(v) == [i \in 1..(Len(v.transactions) - 1) |-> v.transactions[i + 1].date - v.transactions[i].date]

\* n^2 times the square of the population standard deviation of g
SquaredDeviation(g) ==
  Len(g) * SumSeq([i \in 1..Len(g) |-> g[i] * g[i]]) - SumSeq(g) * SumSeq(g)

\* the mean of g is within the bucket's range and its deviation below the ceiling
InBucket(g, b) ==
  /\ b[2] * Len(g) <= SumSeq(g)
  /\ SumSeq(g) <= b[3] * Len(g)
  /\ SquaredDeviation(g) < b[4] * b[4] * Len(g) * Len(g)

MatchedBuckets(g) == {k \in 1..Len(Buckets) : InBucket(g, Buckets[k])}

FirstBucket(g) == Buckets[CHOOSE k \in MatchedBuckets(g) : \A j \in MatchedBuckets(g) : k <= j]

\* C20: the transactions of an analysed profile of two or more are in date
\* order; when their gaps match a bucket the profile is recurring with the
\* first matching bucket, its confidence, the average amount, the deviation
\* of the gaps and lastSeen + round(mean gap) as next date; otherwise the
\* profile is not recurring and has no pattern
C20_RecurrenceBuckets ==
  Done => \A v \in Profiles :
    Len(v.transactions) >= 2 =>
      /\ \A i \in 1..(Len(v.transactions) - 1) : v.transactions[i].date <= v.transactions[i + 1].date
      /\ IF MatchedBuckets(GapsOf(v)) # {}
         THEN /\ v.isRecurring
              /\ v.recurringPattern.frequency = FirstBucket(GapsOf(v))[1]
              /\ v.recurringPattern.confidence = FirstBucket(GapsOf(v))[5]
              /\ v.recurringPattern.expectedAmount = v.averageAmount
              /\ v.recurringPattern.variance.sq = SquaredDeviation(GapsOf(v))
              /\ v.recurringPattern.variance.den = Len(GapsOf(v))
              /\ v.recurringPattern.nextExpectedDate =
                   v.lastSeen + (2 * SumSeq(GapsOf(v)) + Len(GapsOf(v))) \div (2 * Len(GapsOf(v)))
         ELSE /\ ~v.isRecurring
              /\ v.recurringPattern = NoPattern

\* three transactions a week apart, read latest first: weekly, next on day 21
C20_Witness ==
  /\ Done
  /\ Len(transactions) = 3
  /\ transactions[1].date = 14
  /\ transactions[3].date = 0
  /\ Len(vendors) = 1
  /\ vendors[1].isRecurring
  /\ vendors[1].recurringPattern.frequency = "weekly"
  /\ vendors[1].recurringPattern.confidence = 85
  /\ vendors[1].recurringPattern.nextExpectedDate = 21

\* ------------------------------------------------------------------------
\* Properties of the phases of a run
\* ------------------------------------------------------------------------

\* no analyzer has touched the profile
Unanalysed(v) ==
  /\ v.averageAmount = Ratio(0, 1)
  /\ ~v.isRecurring
  /\ v.recurringPattern = NoPattern
  /\ v.fraudScore = 0
  /\ ~v.metadata.isSubscription
  /\ ~v.metadata.isFraudulent
  /\ v.metadata.anomalyScore = 0
  /\ v.metadata.tags = <<>>

WithAverage(v) == [v EXCEPT !.averageAmount = Ratio(v.totalSpent, v.transactionCount)]

\* C21: while transactions are aggregated no profile is analysed; a profile is
\* analysed only when every transaction has been aggregated, once, the
\* profiles before it analysed and those after it not yet, by averageAmount,
\* then the recurrence, subscription and fraud analyzers and the anomaly
\* scorer in that order; no other profile changes in that step
C21_PhaseOrder ==
  [][/\ pc = "aggregate" => \A i \in 1..Len(vendors') : Unanalysed(vendors'[i])
     /\ pc = "analyze" =>
          /\ SumSeq([i \in 1..Len(vendors) |-> vendors[i].transactionCount]) = Len(transactions)
          /\ \A i \in 1..Len(vendors) :
               /\ i < idx => ~Unanalysed(vendors[i])
               /\ i >= idx => Unanalysed(vendors[i])
               /\ i # idx => vendors'[i] = vendors[i]
          /\ vendors'[idx] =
               calculateAnomalyScore(detectFraud(detectSubscription(
                 analyzeRecurringPattern(WithAverage(vendors[idx])))))
          /\ \A i \in 1..(Len(vendors'[idx].transactions) - 1) :
               vendors'[idx].transactions[i].date <= vendors'[idx].transactions[i + 1].date]_vars

\* the first of two profiles has been analysed, as a monthly subscription read
\* latest first, and the second has not
C21_Witness ==
  /\ pc = "analyze"
  /\ idx = 2
  /\ Len(vendors) = 2
  /\ vendors[1].isRecurring
  /\ vendors[1].metadata.isSubscription
  /\ vendors[1].recurringPattern.frequency = "monthly"
  /\ transactions[1].date > transactions[2].date
  /\ Unanalysed(vendors[2])

\* ------------------------------------------------------------------------
\* Properties of the fraud and anomaly scores
\* ------------------------------------------------------------------------

\* what the rules on the vendor name add to the fraud score
NameScore(v) ==
  (IF ContainsKeyword(ToLower(v.name), blacklistedKeywords) THEN 30 ELSE 0)
  + (IF RxTest(knownScamPatterns, ToLower(v.name)) THEN 40 ELSE 0)
  + (IF RxTest(genericNamePattern, ToLower(v.name)) THEN 25 ELSE 0)

\* the number of transactions whose amount is a listed suspicious constant
SuspiciousCount(v) ==
  Cardinality({i \in 1..Len(v.transactions) : v.transactions[i].amount \in suspiciousAmounts})

\* some day has two transactions of the profile that each exceed the threshold
SameDayOverThreshold(v) ==
  \E i, j \in 1..Len(v.transactions) :
    /\ i # j
    /\ v.transactions[i].date = v.transactions[j].date
    /\ v.transactions[i].amount > highDailyThreshold
    /\ v.transactions[j].amount > highDailyThreshold

\* C22: the same-day rule adds 50 to the fraud score of a profile once when
\* some day has two or more of its transactions above the threshold, and
\* nothing otherwise: the score is 20 per suspicious amount, that 50 or 0,
\* and the score of the name
C22_SameDayOncePerProfile ==
  Done => \A v \in Profiles :
    v.fraudScore = 20 * SuspiciousCount(v)
                   + (IF SameDayOverThreshold(v) THEN 50 ELSE 0)
                   + NameScore(v)

\* no two transactions of the profile are on the same day
DistinctDays(v) ==
  \A i, j \in 1..Len(v.transactions) :
    i # j => v.transactions[i].date # v.transactions[j].date

AmountsIn(v) ==
  [i \in 1..Len(v.transactions) |->
     v.transactions[i].amount
       \div GcdSeq([j \in 1..Len(v.transactions) |-> v.transactions[j].amount])]

\* the population standard deviation of the amounts is above half their mean:
\* n * sum of squares - (sum)^2 > (sum)^2 / 4
VariedAmounts(v) ==
  4 * (Len(AmountsIn(v)) * SumSeq([i \in 1..Len(AmountsIn(v)) |-> AmountsIn(v)[i] * AmountsIn(v)[i]])
       - SumSeq(AmountsIn(v)) * SumSeq(AmountsIn(v)))
    > SumSeq(AmountsIn(v)) * SumSeq(AmountsIn(v))

\* the amount of the most recent transaction is above twice the mean
RecentSpike(v) ==
  AmountsIn([transactions |-> SortByDate(v.transactions)])[Len(v.transactions)]
    * Len(v.transactions) > 2 * SumSeq(AmountsIn(v))

\* the days between the two most recent transactions
LatestInterval(v) ==
  IF Len(v.transactions) < 2 THEN 0
  ELSE LatestOf(v).date - SortByDate(v.transactions)[Len(v.transactions) - 1].date

ExpectedIntervalOf(frequency) ==
  CASE frequency = "daily" -> 1 [] frequency = "weekly" -> 7 [] frequency = "biweekly" -> 14
    [] frequency = "monthly" -> 30 [] frequency = "quarterly" -> 90 [] frequency = "annual" -> 365

\* the profile is recurring and its latest interval is off the expected one
\* by more than 30%
OddTiming(v) ==
  /\ v.isRecurring
  /\ 10 * Abs(LatestInterval(v) - ExpectedIntervalOf(v.recurringPattern.frequency))
       > 3 * ExpectedIntervalOf(v.recurringPattern.frequency)

\* the sum of the anomaly increments, in hundredths
Increments(v) ==
  (IF VariedAmounts(v) THEN 20 ELSE 0) + (IF RecentSpike(v) THEN 30 ELSE 0)
  + (IF OddTiming(v) THEN 15 ELSE 0)

\* C24: the anomaly score of a profile is the greater of its fraud score,
\* capped at 100, over 100 and the sum of its anomaly increments, capped at 1
C24_CombinedByMax ==
  Done => \A v \in Profiles :
    Len(v.transactions) > 2 =>
      v.metadata.anomalyScore = Max2(Min2(v.fraudScore, 100), Min2(Increments(v), 100))

\* C25 as stated: with fraud score 0 the anomaly score is the sum, capped at
\* 1, of the three increments, each evaluated for every profile
C25_Original ==
  Done => \A v \in Profiles :
    v.fraudScore = 0 => v.metadata.anomalyScore = Min2(100, Increments(v))

\* the increments with the two conditions on the amounts evaluated only for
\* profiles of more than two transactions
IncrementsOverTwo(v) ==
  (IF Len(v.transactions) > 2 /\ VariedAmounts(v) THEN 20 ELSE 0)
  + (IF Len(v.transactions) > 2 /\ RecentSpike(v) THEN 30 ELSE 0)
  + (IF OddTiming(v) THEN 15 ELSE 0)

\* C25, amended: with fraud score 0 the anomaly score is the sum, capped at
\* 1, of 0.2 and 0.3 for the conditions on the amounts, evaluated only for
\* profiles of more than two transactions, and 0.15 for the condition on the
\* interval, evaluated for every recurring profile
C25_AnomalyIncrements ==
  Done => \A v \in Profiles :
    v.fraudScore = 0 => v.metadata.anomalyScore = Min2(100, IncrementsOverTwo(v))

\* $10.00, $10.00, $100.00 a month apart: both conditions on the amounts
\* hold and the score is 0.5
C25_Witness ==
  /\ Done
  /\ Len(vendors) = 1
  /\ Len(vendors[1].transactions) = 3
  /\ vendors[1].fraudScore = 0
  /\ VariedAmounts(vendors[1])
  /\ RecentSpike(vendors[1])
  /\ ~OddTiming(vendors[1])
  /\ vendors[1].metadata.anomalyScore = 50

\* ------------------------------------------------------------------------
\* Properties of the suggestions and of the review flag
\* ------------------------------------------------------------------------

\* the items of a sequence at their first occurrence
FirstOccurrences(seq) ==
  LET kept == SelectSeq([i \in 1..Len(seq) |-> i],
                        LAMBDA i : \A j \in 1..(i - 1) : seq[j] # seq[i])
  IN  [k \in 1..Len(kept) |-> seq[kept[k]]]

\* the canonical names of the mappings whose key occurs in the context, in
\* the order of the vendor map
MappingHitNames(context) ==
  LET hits == SelectSeq([i \in 1..Len(vendorMappings) |-> i],
                        LAMBDA i : Includes(ToLower(context), ToLower(MappingKey(i))))
  IN  [k \in 1..Len(hits) |-> MappingName(hits[k])]

\* one "Likely <Category> vendor" per category with a keyword in the context,
\* in the order of the category table
CategoryHitNames(context) ==
  LET hits == SelectSeq([i \in 1..Len(categoryHints) |-> i],
                        LAMBDA i : \E k \in 1..Len(categoryHints[i][2]) :
                                     Includes(ToLower(context), Str(categoryHints[i][2][k])))
  IN  [k \in 1..Len(hits) |-> Str("Likely ") \o Str(categoryHints[hits[k]][1]) \o Str(" vendor")]

\* every suggestion the context gives, before the cut
AllSuggestions(context) ==
  FirstOccurrences(MappingHitNames(context)) \o CategoryHitNames(context)
    \o AddAmountHint(<<>>, context)

SuspiciousCall ==
  called /\ MatchingEntries(call.description) = {}
         /\ AnyTest(suspiciousDescriptors, call.description)

\* C26: possibleVendors, when present, has at most 5 entries and no
\* duplicate, and is the start of the list of canonical-keyword hits in
\* vendor-map order, then one "Likely <Category> vendor" per category hit in
\* table order, then the amount hints; on the processor path it is present
\* exactly when needsManualReview is true, on the suspicious path always
C26_SuggestionsShape ==
  called =>
    /\ result.hasPossibleVendors =>
         /\ Len(result.possibleVendors) <= 5
         /\ \A i, j \in 1..Len(result.possibleVendors) :
              result.possibleVendors[i] = result.possibleVendors[j] => i = j
         /\ result.possibleVendors
              = SubSeq(AllSuggestions(CallContext), 1,
                       Min2(5, Len(AllSuggestions(CallContext))))
    /\ ProcessorCall => (result.hasPossibleVendors <=> result.needsManualReview)
    /\ SuspiciousCall => result.hasPossibleVendors

\* a processor match needing review whose context hits the same canonical
\* name under two keys and gives more than five suggestions
C26_Witness ==
  /\ ProcessorCall
  /\ result.needsManualReview
  /\ result.hasPossibleVendors
  /\ MappingHitNames(CallContext) # FirstOccurrences(MappingHitNames(CallContext))
  /\ Len(AllSuggestions(CallContext)) > 5
  /\ Len(result.possibleVendors) = 5

\* an extraction that names no vendor: empty, shorter than 3 characters, all
\* digits, 2 to 4 upper-case letters, or a suspicious generic descriptor
DegenerateExtraction(text) ==
  \/ text = <<>>
  \/ Len(text) < 3
  \/ AllDigits(text)
  \/ (Len(text) \in 2..4 /\ \A i \in 1..Len(text) : text[i] \in Uppers)
  \/ AnyTest(suspiciousDescriptors, text)

\* C27: on the processor path needsManualReview holds exactly when the
\* extraction is degenerate or the processor's base confidence is below 0.8;
\* so every Apple Pay match needs review, and a match with base at least 0.8
\* and a vendor-like extraction does not
C27_ReviewRule ==
  ProcessorCall =>
    /\ result.needsManualReview
         <=> \/ DegenerateExtraction(Extraction(call.description, CallEntry, CallContext))
             \/ CallEntry.confidence < 80
    /\ CallEntry.processor = "Apple Pay" => result.needsManualReview

\* ------------------------------------------------------------------------
\* Properties of the aggregation
\* ------------------------------------------------------------------------

\* the number of times a value occurs in a sequence
Occurrences(seq, x) == Cardinality({i \in 1..Len(seq) : seq[i] = x})

\* the normalization of the chosen vendor name, tabulated over the transactions
\* of the pool
KeyOf == [t \in DOMAIN DerivedOf |-> normalizeVendorName(DerivedOf[t].vendorName)]

\* the canonical key of a transaction: the normalization of its chosen vendor name
KeyOfTransaction(t) == KeyOf[t]

\* C28: after a run on a fresh analyzer there is exactly one profile per
\* distinct canonical key, every input transaction is in the profile of its
\* key and in no other, no profile is empty, the transaction counts sum to
\* the number of transactions and the totals to the sum of the amounts
C28_Conservation ==
  (Done /\ runs = 1) =>
    /\ \A i, j \in 1..Len(vendors) :
         vendors[i].normalizedName = vendors[j].normalizedName => i = j
    /\ {v.normalizedName : v \in Profiles}
         = {KeyOfTransaction(transactions[k]) : k \in 1..Len(transactions)}
    /\ \A v \in Profiles : v.transactions # <<>> /\ v.transactionCount > 0
    /\ \A v \in Profiles : \A k \in 1..Len(transactions) :
         Occurrences(v.transactions, transactions[k])
           = IF KeyOfTransaction(transactions[k]) = v.normalizedName
             THEN Occurrences(transactions, transactions[k]) ELSE 0
    /\ SumSeq([i \in 1..Len(vendors) |-> vendors[i].transactionCount]) = Len(transactions)
    /\ SumSeq([i \in 1..Len(vendors) |-> vendors[i].totalSpent])
         = SumSeq([k \in 1..Len(transactions) |-> transactions[k].amount])

\* four transactions, one of them read twice, in three profiles
C28_Witness ==
  /\ Done
  /\ runs = 1
  /\ Len(transactions) = 4
  /\ Len(vendors) = 3
  /\ \E k \in 1..Len(transactions) : Occurrences(transactions, transactions[k]) = 2

\* ------------------------------------------------------------------------
\* Properties of the tags
\* ------------------------------------------------------------------------

HasTag(v, tag) == \E i \in 1..Len(v.metadata.tags) : v.metadata.tags[i] = tag

\* the anomaly sum before the cap, in hundredths: the fraud score and the
\* increments calculateAnomalyScore adds to it
AnomalySumOf(v) == v.fraudScore + IncrementsOverTwo(v)

\* C29: after a run on a fresh analyzer a profile carries "subscription"
\* exactly when isSubscription, "potential_fraud" exactly when isFraudulent,
\* "anomaly_detected" exactly when its anomaly sum is above 0.5, each tag at
\* most once, and a fraudulent profile has an anomaly score above 0.5 and
\* carries "anomaly_detected"
C29_TagsAgreeWithFlags ==
  (Done /\ runs = 1) => \A v \in Profiles :
    /\ HasTag(v, "subscription") <=> v.metadata.isSubscription
    /\ HasTag(v, "potential_fraud") <=> v.metadata.isFraudulent
    /\ HasTag(v, "anomaly_detected") <=> AnomalySumOf(v) > 50
    /\ \A i, j \in 1..Len(v.metadata.tags) :
         v.metadata.tags[i] = v.metadata.tags[j] => i = j
    /\ v.metadata.isFraudulent =>
         v.metadata.anomalyScore > 50 /\ HasTag(v, "anomaly_detected")

\* a finished run with a fraudulent profile carrying both of its tags and a
\* subscription carrying its own
C29_Witness ==
  /\ Done
  /\ runs = 1
  /\ \E v \in Profiles :
       /\ v.metadata.isFraudulent
       /\ HasTag(v, "potential_fraud")
       /\ HasTag(v, "anomaly_detected")
  /\ \E v \in Profiles :
       /\ v.metadata.isSubscription
       /\ ~v.metadata.isFraudulent
       /\ v.metadata.tags = <<"subscription">>

\* the first transaction in input order with the key of a profile
FirstOfKey(v) ==
  transactions[MinOf({k \in 1..Len(transactions) :
                        KeyOfTransaction(transactions[k]) = v.normalizedName})]

\* the display name of the chosen vendor name, tabulated over the transactions
\* of the pool
DisplayNameOf == [t \in DOMAIN DerivedOf |-> getDisplayName(DerivedOf[t].vendorName)]

\* the name, display name, category and unmasking metadata of a profile are
\* those of one transaction and of its unmask result
FixedBy(v, t, unmasked) ==
  /\ v.name = DerivedOf[t].vendorName
  /\ v.displayName = DisplayNameOf[t]
  /\ v.category = (IF unmasked.category # "" THEN unmasked.category
                   ELSE IF t.category # "" THEN t.category ELSE "Other")
  /\ v.metadata.isObscured = unmasked.isObscured
  /\ v.metadata.originalDescription = (IF unmasked.isObscured THEN t.description ELSE <<>>)
  /\ v.metadata.processor = (IF unmasked.processor # "Direct" THEN unmasked.processor ELSE "")
  /\ v.metadata.unmaskingConfidence = unmasked.confidence
  /\ v.metadata.needsManualReview = unmasked.needsManualReview
  /\ v.metadata.hasPossibleVendors = unmasked.hasPossibleVendors
  /\ v.metadata.possibleVendors = unmasked.possibleVendors

\* the profile of the key of the transaction read next, 0 when it has none
ProfileOfNext ==
  LET hits == {i \in 1..Len(vendors) :
                 vendors[i].normalizedName = KeyOfTransaction(transactions[idx])}
  IN  IF hits = {} THEN 0 ELSE MinOf(hits)

\* a pass of the aggregation over a transaction whose key has a profile
\* changes, in that profile only, at most the seven aggregated fields
AggregationFrame ==
  (pc = "aggregate" /\ ProfileOfNext # 0) =>
    /\ Len(vendors') = Len(vendors)
    /\ \A i \in 1..Len(vendors) : i # ProfileOfNext => vendors'[i] = vendors[i]
    /\ vendors'[ProfileOfNext]
         = [vendors[ProfileOfNext] EXCEPT
              !.transactions = vendors'[ProfileOfNext].transactions,
              !.totalSpent = vendors'[ProfileOfNext].totalSpent,
              !.transactionCount = vendors'[ProfileOfNext].transactionCount,
              !.minAmount = vendors'[ProfileOfNext].minAmount,
              !.maxAmount = vendors'[ProfileOfNext].maxAmount,
              !.firstSeen = vendors'[ProfileOfNext].firstSeen,
              !.lastSeen = vendors'[ProfileOfNext].lastSeen]
    /\ vendors'[ProfileOfNext].transactions
         = Append(vendors[ProfileOfNext].transactions, transactions[idx])

\* C30: the name, display name, category and unmasking metadata of a profile
\* are fixed by the first transaction in input order that maps to its key,
\* and every later transaction with that key changes only transactions,
\* totalSpent, transactionCount, minAmount, maxAmount, firstSeen and
\* lastSeen, whatever its own unmask result is
C30_AggregationFrame ==
  /\ [](runs = 1 => \A v \in Profiles :
                      FixedBy(v, FirstOfKey(v), DerivedOf[FirstOfKey(v)].unmaskedResult))
  /\ [][AggregationFrame]_vars

\* a profile has just taken a second transaction whose unmask result names
\* another processor than the one the profile keeps
C30_Witness ==
  /\ pc \in {"aggregate", "analyze"}
  /\ called
  /\ \E v \in Profiles :
       /\ Len(v.transactions) >= 2
       /\ v.transactions[Len(v.transactions)].description = call.description
       /\ v.normalizedName = KeyOfTransaction(v.transactions[Len(v.transactions)])
       /\ result.processor # "Direct"
       /\ v.metadata.processor # ""
       /\ result.processor # v.metadata.processor
       /\ FixedBy(v, FirstOfKey(v), DerivedOf[FirstOfKey(v)].unmaskedResult)

====
